---------------------------- MODULE Spec2Model ----------------------------
(***************************************************************************)
(* Model of the macro-snapshot pipeline of edgefinder_lite                 *)
(* (src/app/shared_data.py) and of its two callers (src/app/Home.py,       *)
(* src/app/pages/1_Macro_Dashboard.py).                                    *)
(*                                                                         *)
(* Representation.                                                         *)
(*   - A Python str is the sequence of its characters, each character its  *)
(*     Unicode code point: "pmi" is <<112, 109, 105>>.  The comment at the *)
(*     end of a line shows the texts the line holds.                       *)
(*   - A Python float is an IEEE double.  The model holds a double as the  *)
(*     shortest decimal that reads back as that double (what repr prints): *)
(*     a sign, the integer digits and the fraction digits, without leading *)
(*     and trailing zeros, or an infinity.  0.70 is                        *)
(*     [neg |-> FALSE, inf |-> FALSE, int |-> <<>>, frac |-> <<7>>], and   *)
(*     49.99999999999999999 is the double 50.0.  Equal doubles are equal   *)
(*     values, and Less, Gt and Ge order them as Python does.              *)
(*   - An optional value (x or None) is a set with at most one element:    *)
(*     None is {} and a present value v is {v}.                            *)
(*   - An HTML document is the sequence of nodes BeautifulSoup sees: a     *)
(*     "tr" node with the texts of its td cells, or a "text" node.  Html   *)
(*     is the text of the document, the str the code is handed: in it the  *)
(*     characters & < > of a text stand as character references.           *)
(***************************************************************************)
EXTENDS Integers, Sequences, FiniteSets, TLC

VARIABLES
    call,        \* pure-function specifications: the function and its arguments
    result,      \* pure-function specifications: None, or the value returned
    now,         \* wall clock, in seconds
    web,         \* what each region's URL answers at this moment
    webChanges,  \* how often the answers have changed so far
    cache,       \* st.cache_data's single slot: None or {[value, written]}
    pc,          \* each caller's position in get_macro_snapshot_all
    idx,         \* each building caller's position in the region loop
    snapshot,    \* each building caller's local dict `snapshot`
    ret,         \* the value each caller's last call returned, None before
    fetched,     \* the region keys each caller's call has fetched, in order
    answers,     \* the response each of those fetches got, by region
    callInfo,    \* what each caller's call saw when it was made
    builds       \* the builds finished so far: <<[by, start, end, value]>>

vars == <<call, result, now, web, webChanges, cache, pc, idx, snapshot,
          ret, fetched, answers, callInfo, builds>>

----------------------------------------------------------------------------
(* Optional values *)

None == {}

Some(v) == {v}

The(x) == CHOOSE v \in x : TRUE

----------------------------------------------------------------------------
(* Text *)

\* str.isspace(), the whitespace of str.split() and of the pattern \s
Whitespace ==
    {9, 10, 11, 12, 13, 28, 29, 30, 31, 32, 133, 160, 5760} \cup (8192..8202)
    \cup {8232, 8233, 8239, 8287, 12288}

IsSpace(c) == c \in Whitespace

\* the zero of each run of ten decimal digits of Unicode (category Nd)
DecimalZeros ==
    {48, 1632, 1776, 1984, 2406, 2534, 2662, 2790, 2918, 3046, 3174, 3302,
     3430, 3558, 3664, 3792, 3872, 4160, 4240, 6112, 6160, 6470, 6608, 6784,
     6800, 6992, 7088, 7232, 7248, 42528, 43216, 43264, 43472, 43504, 43600,
     44016, 65296, 66720, 68912, 69734, 69872, 69942, 70096, 70384, 70736,
     70864, 71248, 71360, 71472, 71904, 72016, 72784, 73040, 73120, 92768,
     92864, 93008, 120782, 120792, 120802, 120812, 120822, 123200, 123632,
     125264, 130032}

\* the characters with a lower case of their own, in runs <<first, last,
\* step, offset>>: every step-th character from first to last lowers to the
\* character offset places further
LowerRuns ==
    {<<65, 90, 1, 32>>, <<192, 214, 1, 32>>, <<216, 222, 1, 32>>,
     <<256, 302, 2, 1>>, <<306, 310, 2, 1>>, <<313, 327, 2, 1>>,
     <<330, 374, 2, 1>>, <<376, 376, 1, -121>>, <<377, 381, 2, 1>>,
     <<385, 385, 1, 210>>, <<386, 388, 2, 1>>, <<390, 390, 1, 206>>,
     <<391, 391, 1, 1>>, <<393, 394, 1, 205>>, <<395, 395, 1, 1>>,
     <<398, 398, 1, 79>>, <<399, 399, 1, 202>>, <<400, 400, 1, 203>>,
     <<401, 401, 1, 1>>, <<403, 403, 1, 205>>, <<404, 404, 1, 207>>,
     <<406, 406, 1, 211>>, <<407, 407, 1, 209>>, <<408, 408, 1, 1>>,
     <<412, 412, 1, 211>>, <<413, 413, 1, 213>>, <<415, 415, 1, 214>>,
     <<416, 420, 2, 1>>, <<422, 422, 1, 218>>, <<423, 423, 1, 1>>,
     <<425, 425, 1, 218>>, <<428, 428, 1, 1>>, <<430, 430, 1, 218>>,
     <<431, 431, 1, 1>>, <<433, 434, 1, 217>>, <<435, 437, 2, 1>>,
     <<439, 439, 1, 219>>, <<440, 440, 1, 1>>, <<444, 444, 1, 1>>,
     <<452, 452, 1, 2>>, <<453, 453, 1, 1>>, <<455, 455, 1, 2>>,
     <<456, 456, 1, 1>>, <<458, 458, 1, 2>>, <<459, 475, 2, 1>>,
     <<478, 494, 2, 1>>, <<497, 497, 1, 2>>, <<498, 500, 2, 1>>,
     <<502, 502, 1, -97>>, <<503, 503, 1, -56>>, <<504, 542, 2, 1>>,
     <<544, 544, 1, -130>>, <<546, 562, 2, 1>>, <<570, 570, 1, 10795>>,
     <<571, 571, 1, 1>>, <<573, 573, 1, -163>>, <<574, 574, 1, 10792>>,
     <<577, 577, 1, 1>>, <<579, 579, 1, -195>>, <<580, 580, 1, 69>>,
     <<581, 581, 1, 71>>, <<582, 590, 2, 1>>, <<880, 882, 2, 1>>,
     <<886, 886, 1, 1>>, <<895, 895, 1, 116>>, <<902, 902, 1, 38>>,
     <<904, 906, 1, 37>>, <<908, 908, 1, 64>>, <<910, 911, 1, 63>>,
     <<913, 929, 1, 32>>, <<931, 939, 1, 32>>, <<975, 975, 1, 8>>,
     <<984, 1006, 2, 1>>, <<1012, 1012, 1, -60>>, <<1015, 1015, 1, 1>>,
     <<1017, 1017, 1, -7>>, <<1018, 1018, 1, 1>>, <<1021, 1023, 1, -130>>,
     <<1024, 1039, 1, 80>>, <<1040, 1071, 1, 32>>, <<1120, 1152, 2, 1>>,
     <<1162, 1214, 2, 1>>, <<1216, 1216, 1, 15>>, <<1217, 1229, 2, 1>>,
     <<1232, 1326, 2, 1>>, <<1329, 1366, 1, 48>>, <<4256, 4293, 1, 7264>>,
     <<4295, 4295, 1, 7264>>, <<4301, 4301, 1, 7264>>,
     <<5024, 5103, 1, 38864>>, <<5104, 5109, 1, 8>>,
     <<7312, 7354, 1, -3008>>, <<7357, 7359, 1, -3008>>,
     <<7680, 7828, 2, 1>>, <<7838, 7838, 1, -7615>>, <<7840, 7934, 2, 1>>,
     <<7944, 7951, 1, -8>>, <<7960, 7965, 1, -8>>, <<7976, 7983, 1, -8>>,
     <<7992, 7999, 1, -8>>, <<8008, 8013, 1, -8>>, <<8025, 8031, 2, -8>>,
     <<8040, 8047, 1, -8>>, <<8072, 8079, 1, -8>>, <<8088, 8095, 1, -8>>,
     <<8104, 8111, 1, -8>>, <<8120, 8121, 1, -8>>, <<8122, 8123, 1, -74>>,
     <<8124, 8124, 1, -9>>, <<8136, 8139, 1, -86>>, <<8140, 8140, 1, -9>>,
     <<8152, 8153, 1, -8>>, <<8154, 8155, 1, -100>>, <<8168, 8169, 1, -8>>,
     <<8170, 8171, 1, -112>>, <<8172, 8172, 1, -7>>, <<8184, 8185, 1, -128>>,
     <<8186, 8187, 1, -126>>, <<8188, 8188, 1, -9>>,
     <<8486, 8486, 1, -7517>>, <<8490, 8490, 1, -8383>>,
     <<8491, 8491, 1, -8262>>, <<8498, 8498, 1, 28>>, <<8544, 8559, 1, 16>>,
     <<8579, 8579, 1, 1>>, <<9398, 9423, 1, 26>>, <<11264, 11311, 1, 48>>,
     <<11360, 11360, 1, 1>>, <<11362, 11362, 1, -10743>>,
     <<11363, 11363, 1, -3814>>, <<11364, 11364, 1, -10727>>,
     <<11367, 11371, 2, 1>>, <<11373, 11373, 1, -10780>>,
     <<11374, 11374, 1, -10749>>, <<11375, 11375, 1, -10783>>,
     <<11376, 11376, 1, -10782>>, <<11378, 11378, 1, 1>>,
     <<11381, 11381, 1, 1>>, <<11390, 11391, 1, -10815>>,
     <<11392, 11490, 2, 1>>, <<11499, 11501, 2, 1>>, <<11506, 11506, 1, 1>>,
     <<42560, 42604, 2, 1>>, <<42624, 42650, 2, 1>>, <<42786, 42798, 2, 1>>,
     <<42802, 42862, 2, 1>>, <<42873, 42875, 2, 1>>,
     <<42877, 42877, 1, -35332>>, <<42878, 42886, 2, 1>>,
     <<42891, 42891, 1, 1>>, <<42893, 42893, 1, -42280>>,
     <<42896, 42898, 2, 1>>, <<42902, 42920, 2, 1>>,
     <<42922, 42922, 1, -42308>>, <<42923, 42923, 1, -42319>>,
     <<42924, 42924, 1, -42315>>, <<42925, 42925, 1, -42305>>,
     <<42926, 42926, 1, -42308>>, <<42928, 42928, 1, -42258>>,
     <<42929, 42929, 1, -42282>>, <<42930, 42930, 1, -42261>>,
     <<42931, 42931, 1, 928>>, <<42932, 42946, 2, 1>>,
     <<42948, 42948, 1, -48>>, <<42949, 42949, 1, -42307>>,
     <<42950, 42950, 1, -35384>>, <<42951, 42953, 2, 1>>,
     <<42960, 42960, 1, 1>>, <<42966, 42968, 2, 1>>, <<42997, 42997, 1, 1>>,
     <<65313, 65338, 1, 32>>, <<66560, 66599, 1, 40>>,
     <<66736, 66771, 1, 40>>, <<66928, 66964, 2, 39>>,
     <<66929, 66938, 1, 39>>, <<66941, 66954, 1, 39>>,
     <<66957, 66962, 1, 39>>, <<66965, 66965, 1, 39>>,
     <<68736, 68786, 1, 64>>, <<71840, 71871, 1, 32>>,
     <<93760, 93791, 1, 32>>, <<125184, 125217, 1, 34>>}

\* the cased characters (lower case, upper case or title case), in ranges
CasedRanges ==
    {<<65, 90>>, <<97, 122>>, <<170, 170>>, <<181, 181>>, <<186, 186>>,
     <<192, 214>>, <<216, 246>>, <<248, 442>>, <<444, 447>>, <<452, 659>>,
     <<661, 696>>, <<704, 705>>, <<736, 740>>, <<837, 837>>, <<880, 883>>,
     <<886, 887>>, <<890, 893>>, <<895, 895>>, <<902, 902>>, <<904, 906>>,
     <<908, 908>>, <<910, 929>>, <<931, 1013>>, <<1015, 1153>>,
     <<1162, 1327>>, <<1329, 1366>>, <<1376, 1416>>, <<4256, 4293>>,
     <<4295, 4295>>, <<4301, 4301>>, <<4304, 4346>>, <<4349, 4351>>,
     <<5024, 5109>>, <<5112, 5117>>, <<7296, 7304>>, <<7312, 7354>>,
     <<7357, 7359>>, <<7424, 7615>>, <<7680, 7957>>, <<7960, 7965>>,
     <<7968, 8005>>, <<8008, 8013>>, <<8016, 8023>>, <<8025, 8025>>,
     <<8027, 8027>>, <<8029, 8029>>, <<8031, 8061>>, <<8064, 8116>>,
     <<8118, 8124>>, <<8126, 8126>>, <<8130, 8132>>, <<8134, 8140>>,
     <<8144, 8147>>, <<8150, 8155>>, <<8160, 8172>>, <<8178, 8180>>,
     <<8182, 8188>>, <<8305, 8305>>, <<8319, 8319>>, <<8336, 8348>>,
     <<8450, 8450>>, <<8455, 8455>>, <<8458, 8467>>, <<8469, 8469>>,
     <<8473, 8477>>, <<8484, 8484>>, <<8486, 8486>>, <<8488, 8488>>,
     <<8490, 8493>>, <<8495, 8500>>, <<8505, 8505>>, <<8508, 8511>>,
     <<8517, 8521>>, <<8526, 8526>>, <<8544, 8575>>, <<8579, 8580>>,
     <<9398, 9449>>, <<11264, 11492>>, <<11499, 11502>>, <<11506, 11507>>,
     <<11520, 11557>>, <<11559, 11559>>, <<11565, 11565>>, <<42560, 42605>>,
     <<42624, 42653>>, <<42786, 42887>>, <<42891, 42894>>, <<42896, 42954>>,
     <<42960, 42961>>, <<42963, 42963>>, <<42965, 42969>>, <<42997, 42998>>,
     <<43000, 43002>>, <<43824, 43866>>, <<43868, 43880>>, <<43888, 43967>>,
     <<64256, 64262>>, <<64275, 64279>>, <<65313, 65338>>, <<65345, 65370>>,
     <<66560, 66639>>, <<66736, 66771>>, <<66776, 66811>>, <<66928, 66938>>,
     <<66940, 66954>>, <<66956, 66962>>, <<66964, 66965>>, <<66967, 66977>>,
     <<66979, 66993>>, <<66995, 67001>>, <<67003, 67004>>, <<67456, 67456>>,
     <<67459, 67461>>, <<67463, 67504>>, <<67506, 67514>>, <<68736, 68786>>,
     <<68800, 68850>>, <<71840, 71903>>, <<93760, 93823>>,
     <<119808, 119892>>, <<119894, 119964>>, <<119966, 119967>>,
     <<119970, 119970>>, <<119973, 119974>>, <<119977, 119980>>,
     <<119982, 119993>>, <<119995, 119995>>, <<119997, 120003>>,
     <<120005, 120069>>, <<120071, 120074>>, <<120077, 120084>>,
     <<120086, 120092>>, <<120094, 120121>>, <<120123, 120126>>,
     <<120128, 120132>>, <<120134, 120134>>, <<120138, 120144>>,
     <<120146, 120485>>, <<120488, 120512>>, <<120514, 120538>>,
     <<120540, 120570>>, <<120572, 120596>>, <<120598, 120628>>,
     <<120630, 120654>>, <<120656, 120686>>, <<120688, 120712>>,
     <<120714, 120744>>, <<120746, 120770>>, <<120772, 120779>>,
     <<122624, 122633>>, <<122635, 122654>>, <<125184, 125251>>,
     <<127280, 127305>>, <<127312, 127337>>, <<127344, 127369>>}

\* the case-ignorable characters (marks, modifiers, format characters and
\* the punctuation that may stand inside a word), in ranges
CaseIgnorableRanges ==
    {<<39, 39>>, <<46, 46>>, <<58, 58>>, <<94, 94>>, <<96, 96>>,
     <<168, 168>>, <<173, 173>>, <<175, 175>>, <<180, 180>>, <<183, 184>>,
     <<688, 879>>, <<884, 885>>, <<890, 890>>, <<900, 901>>, <<903, 903>>,
     <<1155, 1161>>, <<1369, 1369>>, <<1375, 1375>>, <<1425, 1469>>,
     <<1471, 1471>>, <<1473, 1474>>, <<1476, 1477>>, <<1479, 1479>>,
     <<1524, 1524>>, <<1536, 1541>>, <<1552, 1562>>, <<1564, 1564>>,
     <<1600, 1600>>, <<1611, 1631>>, <<1648, 1648>>, <<1750, 1757>>,
     <<1759, 1768>>, <<1770, 1773>>, <<1807, 1807>>, <<1809, 1809>>,
     <<1840, 1866>>, <<1958, 1968>>, <<2027, 2037>>, <<2042, 2042>>,
     <<2045, 2045>>, <<2070, 2093>>, <<2137, 2139>>, <<2184, 2184>>,
     <<2192, 2193>>, <<2200, 2207>>, <<2249, 2306>>, <<2362, 2362>>,
     <<2364, 2364>>, <<2369, 2376>>, <<2381, 2381>>, <<2385, 2391>>,
     <<2402, 2403>>, <<2417, 2417>>, <<2433, 2433>>, <<2492, 2492>>,
     <<2497, 2500>>, <<2509, 2509>>, <<2530, 2531>>, <<2558, 2558>>,
     <<2561, 2562>>, <<2620, 2620>>, <<2625, 2626>>, <<2631, 2632>>,
     <<2635, 2637>>, <<2641, 2641>>, <<2672, 2673>>, <<2677, 2677>>,
     <<2689, 2690>>, <<2748, 2748>>, <<2753, 2757>>, <<2759, 2760>>,
     <<2765, 2765>>, <<2786, 2787>>, <<2810, 2815>>, <<2817, 2817>>,
     <<2876, 2876>>, <<2879, 2879>>, <<2881, 2884>>, <<2893, 2893>>,
     <<2901, 2902>>, <<2914, 2915>>, <<2946, 2946>>, <<3008, 3008>>,
     <<3021, 3021>>, <<3072, 3072>>, <<3076, 3076>>, <<3132, 3132>>,
     <<3134, 3136>>, <<3142, 3144>>, <<3146, 3149>>, <<3157, 3158>>,
     <<3170, 3171>>, <<3201, 3201>>, <<3260, 3260>>, <<3263, 3263>>,
     <<3270, 3270>>, <<3276, 3277>>, <<3298, 3299>>, <<3328, 3329>>,
     <<3387, 3388>>, <<3393, 3396>>, <<3405, 3405>>, <<3426, 3427>>,
     <<3457, 3457>>, <<3530, 3530>>, <<3538, 3540>>, <<3542, 3542>>,
     <<3633, 3633>>, <<3636, 3642>>, <<3654, 3662>>, <<3761, 3761>>,
     <<3764, 3772>>, <<3782, 3782>>, <<3784, 3789>>, <<3864, 3865>>,
     <<3893, 3893>>, <<3895, 3895>>, <<3897, 3897>>, <<3953, 3966>>,
     <<3968, 3972>>, <<3974, 3975>>, <<3981, 3991>>, <<3993, 4028>>,
     <<4038, 4038>>, <<4141, 4144>>, <<4146, 4151>>, <<4153, 4154>>,
     <<4157, 4158>>, <<4184, 4185>>, <<4190, 4192>>, <<4209, 4212>>,
     <<4226, 4226>>, <<4229, 4230>>, <<4237, 4237>>, <<4253, 4253>>,
     <<4348, 4348>>, <<4957, 4959>>, <<5906, 5908>>, <<5938, 5939>>,
     <<5970, 5971>>, <<6002, 6003>>, <<6068, 6069>>, <<6071, 6077>>,
     <<6086, 6086>>, <<6089, 6099>>, <<6103, 6103>>, <<6109, 6109>>,
     <<6155, 6159>>, <<6211, 6211>>, <<6277, 6278>>, <<6313, 6313>>,
     <<6432, 6434>>, <<6439, 6440>>, <<6450, 6450>>, <<6457, 6459>>,
     <<6679, 6680>>, <<6683, 6683>>, <<6742, 6742>>, <<6744, 6750>>,
     <<6752, 6752>>, <<6754, 6754>>, <<6757, 6764>>, <<6771, 6780>>,
     <<6783, 6783>>, <<6823, 6823>>, <<6832, 6862>>, <<6912, 6915>>,
     <<6964, 6964>>, <<6966, 6970>>, <<6972, 6972>>, <<6978, 6978>>,
     <<7019, 7027>>, <<7040, 7041>>, <<7074, 7077>>, <<7080, 7081>>,
     <<7083, 7085>>, <<7142, 7142>>, <<7144, 7145>>, <<7149, 7149>>,
     <<7151, 7153>>, <<7212, 7219>>, <<7222, 7223>>, <<7288, 7293>>,
     <<7376, 7378>>, <<7380, 7392>>, <<7394, 7400>>, <<7405, 7405>>,
     <<7412, 7412>>, <<7416, 7417>>, <<7468, 7530>>, <<7544, 7544>>,
     <<7579, 7679>>, <<8125, 8125>>, <<8127, 8129>>, <<8141, 8143>>,
     <<8157, 8159>>, <<8173, 8175>>, <<8189, 8190>>, <<8203, 8207>>,
     <<8216, 8217>>, <<8228, 8228>>, <<8231, 8231>>, <<8234, 8238>>,
     <<8288, 8292>>, <<8294, 8303>>, <<8305, 8305>>, <<8319, 8319>>,
     <<8336, 8348>>, <<8400, 8432>>, <<11388, 11389>>, <<11503, 11505>>,
     <<11631, 11631>>, <<11647, 11647>>, <<11744, 11775>>, <<11823, 11823>>,
     <<12293, 12293>>, <<12330, 12333>>, <<12337, 12341>>, <<12347, 12347>>,
     <<12441, 12446>>, <<12540, 12542>>, <<40981, 40981>>, <<42232, 42237>>,
     <<42508, 42508>>, <<42607, 42610>>, <<42612, 42621>>, <<42623, 42623>>,
     <<42652, 42655>>, <<42736, 42737>>, <<42752, 42785>>, <<42864, 42864>>,
     <<42888, 42890>>, <<42994, 42996>>, <<43000, 43001>>, <<43010, 43010>>,
     <<43014, 43014>>, <<43019, 43019>>, <<43045, 43046>>, <<43052, 43052>>,
     <<43204, 43205>>, <<43232, 43249>>, <<43263, 43263>>, <<43302, 43309>>,
     <<43335, 43345>>, <<43392, 43394>>, <<43443, 43443>>, <<43446, 43449>>,
     <<43452, 43453>>, <<43471, 43471>>, <<43493, 43494>>, <<43561, 43566>>,
     <<43569, 43570>>, <<43573, 43574>>, <<43587, 43587>>, <<43596, 43596>>,
     <<43632, 43632>>, <<43644, 43644>>, <<43696, 43696>>, <<43698, 43700>>,
     <<43703, 43704>>, <<43710, 43711>>, <<43713, 43713>>, <<43741, 43741>>,
     <<43756, 43757>>, <<43763, 43764>>, <<43766, 43766>>, <<43867, 43871>>,
     <<43881, 43883>>, <<44005, 44005>>, <<44008, 44008>>, <<44013, 44013>>,
     <<64286, 64286>>, <<64434, 64450>>, <<65024, 65039>>, <<65043, 65043>>,
     <<65056, 65071>>, <<65106, 65106>>, <<65109, 65109>>, <<65279, 65279>>,
     <<65287, 65287>>, <<65294, 65294>>, <<65306, 65306>>, <<65342, 65342>>,
     <<65344, 65344>>, <<65392, 65392>>, <<65438, 65439>>, <<65507, 65507>>,
     <<65529, 65531>>, <<66045, 66045>>, <<66272, 66272>>, <<66422, 66426>>,
     <<67456, 67461>>, <<67463, 67504>>, <<67506, 67514>>, <<68097, 68099>>,
     <<68101, 68102>>, <<68108, 68111>>, <<68152, 68154>>, <<68159, 68159>>,
     <<68325, 68326>>, <<68900, 68903>>, <<69291, 69292>>, <<69446, 69456>>,
     <<69506, 69509>>, <<69633, 69633>>, <<69688, 69702>>, <<69744, 69744>>,
     <<69747, 69748>>, <<69759, 69761>>, <<69811, 69814>>, <<69817, 69818>>,
     <<69821, 69821>>, <<69826, 69826>>, <<69837, 69837>>, <<69888, 69890>>,
     <<69927, 69931>>, <<69933, 69940>>, <<70003, 70003>>, <<70016, 70017>>,
     <<70070, 70078>>, <<70089, 70092>>, <<70095, 70095>>, <<70191, 70193>>,
     <<70196, 70196>>, <<70198, 70199>>, <<70206, 70206>>, <<70367, 70367>>,
     <<70371, 70378>>, <<70400, 70401>>, <<70459, 70460>>, <<70464, 70464>>,
     <<70502, 70508>>, <<70512, 70516>>, <<70712, 70719>>, <<70722, 70724>>,
     <<70726, 70726>>, <<70750, 70750>>, <<70835, 70840>>, <<70842, 70842>>,
     <<70847, 70848>>, <<70850, 70851>>, <<71090, 71093>>, <<71100, 71101>>,
     <<71103, 71104>>, <<71132, 71133>>, <<71219, 71226>>, <<71229, 71229>>,
     <<71231, 71232>>, <<71339, 71339>>, <<71341, 71341>>, <<71344, 71349>>,
     <<71351, 71351>>, <<71453, 71455>>, <<71458, 71461>>, <<71463, 71467>>,
     <<71727, 71735>>, <<71737, 71738>>, <<71995, 71996>>, <<71998, 71998>>,
     <<72003, 72003>>, <<72148, 72151>>, <<72154, 72155>>, <<72160, 72160>>,
     <<72193, 72202>>, <<72243, 72248>>, <<72251, 72254>>, <<72263, 72263>>,
     <<72273, 72278>>, <<72281, 72283>>, <<72330, 72342>>, <<72344, 72345>>,
     <<72752, 72758>>, <<72760, 72765>>, <<72767, 72767>>, <<72850, 72871>>,
     <<72874, 72880>>, <<72882, 72883>>, <<72885, 72886>>, <<73009, 73014>>,
     <<73018, 73018>>, <<73020, 73021>>, <<73023, 73029>>, <<73031, 73031>>,
     <<73104, 73105>>, <<73109, 73109>>, <<73111, 73111>>, <<73459, 73460>>,
     <<78896, 78904>>, <<92912, 92916>>, <<92976, 92982>>, <<92992, 92995>>,
     <<94031, 94031>>, <<94095, 94111>>, <<94176, 94177>>, <<94179, 94180>>,
     <<110576, 110579>>, <<110581, 110587>>, <<110589, 110590>>,
     <<113821, 113822>>, <<113824, 113827>>, <<118528, 118573>>,
     <<118576, 118598>>, <<119143, 119145>>, <<119155, 119170>>,
     <<119173, 119179>>, <<119210, 119213>>, <<119362, 119364>>,
     <<121344, 121398>>, <<121403, 121452>>, <<121461, 121461>>,
     <<121476, 121476>>, <<121499, 121503>>, <<121505, 121519>>,
     <<122880, 122886>>, <<122888, 122904>>, <<122907, 122913>>,
     <<122915, 122916>>, <<122918, 122922>>, <<123184, 123197>>,
     <<123566, 123566>>, <<123628, 123631>>, <<125136, 125142>>,
     <<125252, 125259>>, <<127995, 127999>>, <<917505, 917505>>,
     <<917536, 917631>>, <<917760, 917999>>}

\* the pattern \d: a decimal digit of any script
IsDigit(c) ==
    IF c < 128 THEN c >= 48 /\ c <= 57  \* '0' '9'
    ELSE \E z \in DecimalZeros : c >= z /\ c <= z + 9

\* the value float() gives a decimal digit
DigitVal(c) == c - (CHOOSE z \in DecimalZeros : c >= z /\ c <= z + 9)

InRanges(c, ranges) == \E r \in ranges : c >= r[1] /\ c <= r[2]

IsCased(c) == InRanges(c, CasedRanges)

IsCaseIgnorable(c) == InRanges(c, CaseIgnorableRanges)

InRun(c, r) == c >= r[1] /\ c <= r[2] /\ (c - r[1]) % r[3] = 0

\* the lower case of a character that lowers to one character
LowerChar(c) ==
    IF c < 128 THEN (IF c >= 65 /\ c <= 90 THEN c + 32 ELSE c)  \* 'A' 'Z'
    ELSE IF \E r \in LowerRuns : InRun(c, r)
         THEN c + (CHOOSE r \in LowerRuns : InRun(c, r))[4]
         ELSE c

\* a capital sigma is final when the nearest character before it that is not
\* case-ignorable is cased and the nearest one after it is not
FinalSigma(s, i) ==
    LET before == {j \in 1..(i - 1) : ~IsCaseIgnorable(s[j])}
        after  == {j \in (i + 1)..Len(s) : ~IsCaseIgnorable(s[j])}
    IN  /\ before # {}
        /\ IsCased(s[CHOOSE j \in before : \A k \in before : k <= j])
        /\ \/ after = {}
           \/ ~IsCased(s[CHOOSE j \in after : \A k \in after : j <= k])

\* what str.lower() puts for the character at i: capital sigma (931) lowers
\* to the final or the plain small sigma, capital I with dot (304) to an i
\* and a combining dot, every other character to one character
LowerAt(s, i) ==
    IF s[i] = 931 THEN <<IF FinalSigma(s, i) THEN 962 ELSE 963>>
    ELSE IF s[i] = 304 THEN <<105, 775>>
    ELSE <<LowerChar(s[i])>>

RECURSIVE LowerFrom(_, _)
LowerFrom(s, i) ==
    IF i > Len(s) THEN <<>> ELSE LowerAt(s, i) \o LowerFrom(s, i + 1)

\* str.lower()
lower(s) ==
    IF \E i \in 1..Len(s) : s[i] = 304 THEN LowerFrom(s, 1)
    ELSE [i \in 1..Len(s) |-> LowerAt(s, i)[1]]

\* k in s  (substring test)
Contains(s, k) ==
    \E i \in 1..(Len(s) - Len(k) + 1) : SubSeq(s, i, i + Len(k) - 1) = k

\* s.find(k): 0-based index of the first occurrence, -1 when there is none
find(s, k) ==
    IF Contains(s, k)
    THEN (CHOOSE i \in 1..(Len(s) - Len(k) + 1) :
            /\ SubSeq(s, i, i + Len(k) - 1) = k
            /\ \A j \in 1..(i - 1) : SubSeq(s, j, j + Len(k) - 1) # k) - 1
    ELSE -1

RECURSIVE CleanFrom(_, _, _)
CleanFrom(s, i, acc) ==
    IF i > Len(s) THEN acc
    ELSE IF IsSpace(s[i]) THEN CleanFrom(s, i + 1, acc)
    ELSE LET sep == IF acc # <<>> /\ i > 1 /\ IsSpace(s[i - 1])
                    THEN <<32>> ELSE <<>>  \* " "
         IN  CleanFrom(s, i + 1, acc \o sep \o <<s[i]>>)

\* " ".join(text.split()).strip(); None and "" give ""
_clean_text(text) == IF text = None \/ The(text) = <<>> THEN <<>>
                     ELSE CleanFrom(The(text), 1, <<>>)

\* the index after the longest run of digits that starts at i
RECURSIVE DigitRunEnd(_, _)
DigitRunEnd(s, i) ==
    IF i <= Len(s) /\ IsDigit(s[i]) THEN DigitRunEnd(s, i + 1) ELSE i

\* the index after the longest run of whitespace that starts at i
RECURSIVE SpaceRunEnd(_, _)
SpaceRunEnd(s, i) ==
    IF i <= Len(s) /\ IsSpace(s[i]) THEN SpaceRunEnd(s, i + 1) ELSE i

\* [-+]?\d+\.\d+ matched at i: the index after the match, 0 when it fails
NumberEndAt(s, i) ==
    LET a == IF i <= Len(s) /\ s[i] \in {45, 43} THEN i + 1 ELSE i  \* '-' '+'
        b == DigitRunEnd(s, a)
        c == IF b > a /\ b <= Len(s) /\ s[b] = 46 THEN DigitRunEnd(s, b + 1)  \* '.'
             ELSE 0
    IN  IF c > b + 1 THEN c ELSE 0

\* [-+]?\d+\.\d+\s*% matched at i: the index after the match, 0 when it fails
PercentEndAt(s, i) ==
    LET e == NumberEndAt(s, i)
        f == IF e = 0 THEN 0 ELSE SpaceRunEnd(s, e)
    IN  IF e # 0 /\ f <= Len(s) /\ s[f] = 37 THEN f + 1 ELSE 0  \* '%'

----------------------------------------------------------------------------
(* Numbers: float() as an IEEE double *)

\* the digits of a run of digit characters
Digits(s) == The({ [i \in 1..Len(x) |-> DigitVal(x[i])] : x \in {s} })

\* The operations on digits name the value of each operand once, x \in {d},
\* and work on the named value.

\* digits without their leading zeros
StripLeft(d) ==
    The({ IF \A i \in 1..Len(x) : x[i] = 0 THEN <<>>
          ELSE SubSeq(x, CHOOSE i \in 1..Len(x) :
                            x[i] # 0 /\ \A j \in 1..(i - 1) : x[j] = 0,
                      Len(x))
          : x \in {d} })

\* digits without their trailing zeros
StripRight(d) ==
    The({ IF \A i \in 1..Len(x) : x[i] = 0 THEN <<>>
          ELSE SubSeq(x, 1, CHOOSE i \in 1..Len(x) :
                              x[i] # 0 /\ \A j \in (i + 1)..Len(x) : x[j] = 0)
          : x \in {d} })

\* the float with these integer and fraction digits; -0.0 equals 0.0
Decimal(neg, ip, fp) ==
    The({ [neg |-> neg /\ (i # <<>> \/ f # <<>>), inf |-> FALSE, int |-> i, frac |-> f]
          : i \in {StripLeft(ip)}, f \in {StripRight(fp)} })

\* float("inf") and float("-inf")
Infinity(neg) == [neg |-> neg, inf |-> TRUE, int |-> <<>>, frac |-> <<>>]

\* A natural number of any size is the sequence of its decimal digits, without
\* leading zeros; <<>> is 0.

\* a < b
BigLess(a, b) ==
    \E x \in {a}, y \in {b} :
        IF Len(x) # Len(y) THEN Len(x) < Len(y)
        ELSE \E i \in 1..Len(x) : x[i] < y[i] /\ \A j \in 1..(i - 1) : x[j] = y[j]

\* a written in n places
Padded(a, n) == [i \in 1..(n - Len(a)) |-> 0] \o a

\* a place of the sum s of the digits takes a carry when the places after it
\* overflow
Carry(s, i) ==
    IF \E j \in (i + 1)..Len(s) : s[j] >= 10 /\ \A k \in (i + 1)..(j - 1) : s[k] = 9
    THEN 1 ELSE 0

\* a + b
Plus(a, b) ==
    The({ The({ (IF Carry(s, 0) = 1 THEN <<1>> ELSE <<>>)
                \o [i \in 1..Len(s) |-> (s[i] + Carry(s, i)) % 10]
                : s \in {[i \in 1..Len(x) |-> x[i] + y[i]]} })
          : x \in {Padded(a, IF Len(a) > Len(b) THEN Len(a) ELSE Len(b))},
            y \in {Padded(b, IF Len(a) > Len(b) THEN Len(a) ELSE Len(b))} })

\* a place of x - y lends when the places after it fall short
Borrow(x, y, i) ==
    IF \E j \in (i + 1)..Len(x) : x[j] < y[j] /\ \A k \in (i + 1)..(j - 1) : x[k] = y[k]
    THEN 1 ELSE 0

\* a - b for a >= b
Minus(a, b) ==
    The({ StripLeft([i \in 1..Len(x) |-> (x[i] - y[i] - Borrow(x, y, i) + 10) % 10])
          : x \in {a}, y \in {Padded(b, Len(a))} })

\* 2a + bit: a place takes a carry when the next digit is 5 or more
Twice(a, bit) ==
    The({ IF x = <<>> THEN (IF bit = 1 THEN <<1>> ELSE <<>>)
          ELSE (IF x[1] >= 5 THEN <<1>> ELSE <<>>)
               \o [i \in 1..Len(x) |->
                     (2 * x[i] + (IF i < Len(x) THEN x[i + 1] \div 5 ELSE bit)) % 10]
          : x \in {a} })

\* 5a, as the half of 10a
FiveTimes(a) ==
    The({ StripLeft([i \in 1..Len(x) |->
                       (x[i] + (IF i > 1 THEN 10 * (x[i - 1] % 2) ELSE 0)) \div 2])
          : x \in {a \o <<0>>} })

\* a * 2^n, half the doublings at a time
RECURSIVE TimesTwoTo(_, _)
TimesTwoTo(a, n) ==
    IF n = 0 THEN a
    ELSE IF n = 1 THEN Twice(a, 0)
    ELSE The({ TimesTwoTo(b, n - n \div 2) : b \in {TimesTwoTo(a, n \div 2)} })

\* a * 5^n
RECURSIVE TimesFiveTo(_, _)
TimesFiveTo(a, n) ==
    IF n = 0 THEN a
    ELSE IF n = 1 THEN FiveTimes(a)
    ELSE The({ TimesFiveTo(b, n - n \div 2) : b \in {TimesFiveTo(a, n \div 2)} })

\* 10^k
TenTo(k) == <<1>> \o [i \in 1..k |-> 0]

\* a double has 53 bits of mantissa; its last bit is worth 2^e, e from -1074
\* (the subnormals) to 971
MANT_BITS == 53

MIN_EXP == -1074

MAX_EXP == 971

\* 2^52, the least mantissa of a normal double
MIN_NORMAL == <<4, 5, 0, 3, 5, 9, 9, 6, 2, 7, 3, 7, 0, 4, 9, 6>>

\* the numerals of up to 15 digits are read back from their double unchanged
EXACT_DIGITS == 15

\* at most 17 significant digits tell a double from every other
MAX_DIGITS == 17

\* an integer part of more than 309 digits is beyond the largest double
MAX_INT_DIGITS == 309

\* a number below 10^-324 is nearer to 0 than to the least double
MIN_FRAC_ZEROS == 324

\* the steps, each half the one before, in which an exponent is found
SHIFT_STEPS == <<1024, 512, 256, 128, 64, 32, 16, 8, 4, 2, 1>>

\* a number of n digits times 2^s has n + 3s/10 digits or more
GrowthOf(s) == (3 * s) \div 10

\* h doubled, and e raised, as often as a >= 2h allows: from step k on
RECURSIVE RaiseFrom(_, _, _, _)
RaiseFrom(a, h, e, k) ==
    IF k > Len(SHIFT_STEPS) THEN [a |-> a, h |-> h, e |-> e]
    ELSE IF Len(a) - Len(h) < GrowthOf(SHIFT_STEPS[k]) THEN RaiseFrom(a, h, e, k + 1)
    ELSE The({ IF BigLess(a, t) THEN RaiseFrom(a, h, e, k + 1)
               ELSE RaiseFrom(a, t, e + SHIFT_STEPS[k], k + 1)
               : t \in {TimesTwoTo(h, SHIFT_STEPS[k])} })

\* a doubled, and e lowered, as often as a < h and MIN_EXP allow: from
\* step k on
RECURSIVE LowerFromStep(_, _, _, _)
LowerFromStep(a, h, e, k) ==
    IF k > Len(SHIFT_STEPS) THEN [a |-> a, h |-> h, e |-> e]
    ELSE IF \/ e - SHIFT_STEPS[k] < MIN_EXP
            \/ Len(h) + 1 - Len(a) < GrowthOf(SHIFT_STEPS[k])
         THEN LowerFromStep(a, h, e, k + 1)
    ELSE The({ IF BigLess(t, Twice(h, 0))
               THEN LowerFromStep(t, h, e - SHIFT_STEPS[k], k + 1)
               ELSE LowerFromStep(a, h, e, k + 1)
               : t \in {TimesTwoTo(a, SHIFT_STEPS[k])} })

\* the exponent e with h <= a < 2h, where a/h * 2^52 is the mantissa; a
\* subnormal keeps e at MIN_EXP and a below h
Normalise(a, h) ==
    IF BigLess(a, h) THEN LowerFromStep(a, h, 0, 1) ELSE RaiseFrom(a, h, 0, 1)

\* one more bit of the quotient m, r the running remainder
DivideStep(r, h, m) ==
    IF BigLess(r, h) THEN [r |-> Twice(r, 0), m |-> Twice(m, 0)]
    ELSE [r |-> Twice(Minus(r, h), 0), m |-> Twice(m, 1)]

\* n more bits of the quotient, half of them at a time
RECURSIVE DivideBits(_, _, _, _)
DivideBits(r, h, n, m) ==
    IF n = 0 THEN [r |-> r, m |-> m]
    ELSE IF n = 1 THEN DivideStep(r, h, m)
    ELSE The({ DivideBits(q.r, h, n - n \div 2, q.m)
               : q \in {DivideBits(r, h, n \div 2, m)} })

IsOdd(m) == m # <<>> /\ m[Len(m)] % 2 = 1

\* the quotient q of a division by h rounded to the nearest, a tie to the even
\* mantissa, as [m, e]: a mantissa that reaches 2^53 starts the next binade
RoundHalfEven(q, h, e) ==
    The({ IF m = Twice(MIN_NORMAL, 0) THEN [m |-> MIN_NORMAL, e |-> e + 1]
          ELSE [m |-> m, e |-> e]
          : m \in {IF BigLess(h, q.r) \/ (q.r = h /\ IsOdd(q.m))
                   THEN Plus(q.m, <<1>>) ELSE q.m} })

\* the double nearest to a / 10^k, ties to the even mantissa: [m, e] stands
\* for m * 2^e, m = <<>> for zero, e above MAX_EXP for an overflow
NearestDouble(a, k) ==
    The({ The({ RoundHalfEven(q, n.h, n.e)
                : q \in {DivideBits(n.a, n.h, MANT_BITS, <<>>)} })
          : n \in {The({ Normalise(x, h)
                         : x \in {a}, h \in {TimesTwoTo(TenTo(k), MANT_BITS - 1)} })} })

\* c * 2^(e-2) is Scaled(c, e) / 10^Scale(e)
Scale(e) == IF e < 2 THEN 2 - e ELSE 0

Scaled(c, e) == IF e < 2 THEN TimesFiveTo(c, 2 - e) ELSE TimesTwoTo(c, e - 2)

\* d cut after n digits, the digits after them zero
Floor(d, n) == [i \in 1..Len(d) |-> IF i <= n THEN d[i] ELSE 0]

\* the next number of n digits above Floor(d, n)
Ceiling(d, n) ==
    Plus(SubSeq(d, 1, n), <<1>>) \o [i \in 1..(Len(d) - n) |-> 0]

\* the decimals of n significant digits that read back as the double d whose
\* neighbours are half way at lo and hi (the ends count for an even mantissa)
Candidates(d, lo, hi, even, n) ==
    {c \in IF Len(d) <= n THEN {d} ELSE {Floor(d, n), Ceiling(d, n)} :
        IF even THEN ~BigLess(c, lo) /\ ~BigLess(hi, c)
        ELSE BigLess(lo, c) /\ BigLess(c, hi)}

\* |c - d|
Distance(c, d) == IF BigLess(c, d) THEN Minus(d, c) ELSE Minus(c, d)

\* the least number of significant digits that tells d from its neighbours
DigitsNeeded(d, lo, hi, even) ==
    CHOOSE n \in 1..MAX_DIGITS :
        /\ Candidates(d, lo, hi, even, n) # {}
        /\ \A j \in 1..(n - 1) : Candidates(d, lo, hi, even, j) = {}

\* the candidate nearest to d, the even one of two equally near
Closest(cs, d, n) ==
    CHOOSE c \in cs :
        \A o \in cs :
            \/ c = o
            \/ \E x \in {Distance(c, d)}, y \in {Distance(o, d)} :
                  \/ BigLess(x, y)
                  \/ x = y /\ ~IsOdd(SubSeq(c, 1, Len(c) - (Len(d) - n)))

\* the shortest decimal that reads back as the double m * 2^e, the nearest to
\* it of that length: the digits of an integer number of 10^-Scale(e)
Shortest(m, e) ==
    The({ The({ The({ Closest(cs, d, n) : cs \in {Candidates(d, lo, hi, ~IsOdd(m), n)} })
                : n \in {DigitsNeeded(d, lo, hi, ~IsOdd(m))} })
          : d  \in {Scaled(Twice(Twice(m, 0), 0), e)},
            lo \in {Scaled(Minus(Twice(Twice(m, 0), 0),
                                 IF m = MIN_NORMAL /\ e > MIN_EXP THEN <<1>> ELSE <<2>>), e)},
            hi \in {Scaled(Twice(Twice(m, 1), 0), e)} })

\* the float that is the double b = [m, e], written with the digits of repr()
Repr(neg, b) ==
    IF b.e > MAX_EXP THEN Infinity(neg)
    ELSE IF b.m = <<>> THEN Decimal(FALSE, <<>>, <<>>)
    ELSE The({ Decimal(neg, SubSeq(z, 1, Len(z) - Scale(b.e)),
                       SubSeq(z, Len(z) - Scale(b.e) + 1, Len(z)))
               : z \in {The({ [j \in 1..(Scale(b.e) - Len(c)) |-> 0] \o c
                              : c \in {Shortest(b.m, b.e)} })} })

\* the double nearest to the number with integer digits i and fraction digits
\* f, i without leading and f without trailing zeros
Rounded(neg, i, f) ==
    IF Len(i) + Len(f) <= EXACT_DIGITS THEN Decimal(neg, i, f)
    ELSE IF Len(i) > MAX_INT_DIGITS THEN Infinity(neg)
    ELSE IF i = <<>> /\ Len(f) - Len(StripLeft(f)) >= MIN_FRAC_ZEROS
         THEN Decimal(FALSE, <<>>, <<>>)
    ELSE The({ Repr(neg, b) : b \in {NearestDouble(StripLeft(i \o f), Len(f))} })

\* the double nearest to the number with integer digits ip and fraction
\* digits fp
Double(neg, ip, fp) ==
    The({ Rounded(neg, i, f) : i \in {StripLeft(ip)}, f \in {StripRight(fp)} })

\* float(t) for t matching [-+]?\d+\.\d+
float(t) ==
    The({ The({ Double(x[1] = 45,  \* '-'
                       Digits(SubSeq(x, IF x[1] \in {45, 43} THEN 2 ELSE 1, dot - 1)),  \* '-' '+'
                       Digits(SubSeq(x, dot + 1, Len(x))))
                : dot \in {CHOOSE i \in 1..Len(x) : x[i] = 46} })  \* '.'
          : x \in {t} })

\* |a| < |b|: fewer integer digits, or the first differing digit smaller
MagLess(a, b) ==
    IF a.inf \/ b.inf THEN ~a.inf /\ b.inf
    ELSE IF Len(a.int) # Len(b.int) THEN Len(a.int) < Len(b.int)
    ELSE LET n == IF Len(a.frac) > Len(b.frac) THEN Len(a.frac) ELSE Len(b.frac)
         IN  \E x \in {a.int \o [i \in 1..n |-> IF i <= Len(a.frac) THEN a.frac[i] ELSE 0]},
                y \in {b.int \o [i \in 1..n |-> IF i <= Len(b.frac) THEN b.frac[i] ELSE 0]} :
                \E i \in 1..Len(x) : x[i] < y[i] /\ \A j \in 1..(i - 1) : x[j] = y[j]

\* a < b on floats
Less(a, b) ==
    IF a.neg # b.neg THEN a.neg
    ELSE IF a.neg THEN MagLess(b, a) ELSE MagLess(a, b)

\* a > b on floats
Gt(a, b) == Less(b, a)

\* a >= b on floats
Ge(a, b) == ~Less(a, b)

\* re.search(r"([-+]?\d+\.\d+)\s*%", txt): float of group 1 of the leftmost match
_extract_numeric_percent(txt) ==
    IF txt = None \/ The(txt) = <<>> THEN None
    ELSE LET s == The(txt)
             m == {i \in 1..Len(s) : PercentEndAt(s, i) # 0}
         IN  IF m = {} THEN None
             ELSE LET i == CHOOSE i \in m : \A j \in m : i <= j
                  IN  Some(float(SubSeq(s, i, NumberEndAt(s, i) - 1)))

\* re.search(r"([-+]?\d+\.\d+)", txt): float of the leftmost match
_extract_numeric_plain(txt) ==
    IF txt = None \/ The(txt) = <<>> THEN None
    ELSE LET s == The(txt)
             m == {i \in 1..Len(s) : NumberEndAt(s, i) # 0}
         IN  IF m = {} THEN None
             ELSE LET i == CHOOSE i \in m : \A j \in m : i <= j
                  IN  Some(float(SubSeq(s, i, NumberEndAt(s, i) - 1)))

\* re.findall(r"[-+]?\d+\.\d+\s*%", s): the matches from index i on, left to right,
\* each search resuming where the last match ended
RECURSIVE FindAllPercentFrom(_, _)
FindAllPercentFrom(s, i) ==
    LET m == {j \in i..Len(s) : PercentEndAt(s, j) # 0}
    IN  IF m = {} THEN <<>>
        ELSE LET j == CHOOSE j \in m : \A k \in m : j <= k
             IN  <<SubSeq(s, j, PercentEndAt(s, j) - 1)>>
                 \o FindAllPercentFrom(s, PercentEndAt(s, j))

----------------------------------------------------------------------------
(* Extraction: HTML document -> candidate rows *)

\* a table row with these cell texts
Tr(cells) == [tag |-> "tr", tds |-> cells, text |-> <<>>]

\* text outside any table
Text(s) == [tag |-> "text", tds |-> <<>>, text |-> s]

\* a text as HTML holds it: & < > are written as character references, which
\* the parser reads back as the characters
RECURSIVE EscapeFrom(_, _)
EscapeFrom(s, i) ==
    IF i > Len(s) THEN <<>>
    ELSE (IF s[i] = 38 THEN <<38, 97, 109, 112, 59>>  \* "&amp;" '&'
          ELSE IF s[i] = 60 THEN <<38, 108, 116, 59>>  \* "&lt;" '<'
          ELSE IF s[i] = 62 THEN <<38, 103, 116, 59>>  \* "&gt;" '>'
          ELSE <<s[i]>>) \o EscapeFrom(s, i + 1)

Escape(s) ==
    IF \E i \in 1..Len(s) : s[i] \in {38, 60, 62} THEN EscapeFrom(s, 1)  \* '&' '<' '>'
    ELSE s

RECURSIVE CellsHtml(_)
CellsHtml(cells) ==
    IF cells = <<>> THEN <<>>
    ELSE <<60, 116, 100, 62>> \o Escape(Head(cells)) \o <<60, 47, 116, 100, 62>> \o CellsHtml(Tail(cells))  \* "<td>" "</td>"

\* the text of the document: resp.text
RECURSIVE Html(_)
Html(doc) ==
    IF doc = <<>> THEN <<>>
    ELSE LET n == Head(doc)
         IN  (IF n.tag = "tr" THEN <<60, 116, 114, 62>> \o CellsHtml(n.tds) \o <<60, 47, 116, 114, 62>>  \* "<tr>" "</tr>"
              ELSE Escape(n.text)) \o Html(Tail(doc))

TABLE_KEYWORDS == <<<<114, 101, 116, 97, 105, 108, 32, 115, 97, 108, 101, 115>>, <<112, 109, 105>>, <<99, 112, 105>>, <<99, 111, 110, 115, 117, 109, 101, 114, 32, 112, 114, 105, 99, 101>>, <<105, 110, 102, 108, 97, 116, 105, 111, 110>>>>  \* "retail sales" "pmi" "cpi" "consumer price" "inflation"

FALLBACK_KEYWORDS == <<<<82, 101, 116, 97, 105, 108, 32, 83, 97, 108, 101, 115>>, <<114, 101, 116, 97, 105, 108, 32, 115, 97, 108, 101, 115>>, <<80, 77, 73>>, <<112, 109, 105>>,  \* "Retail Sales" "retail sales" "PMI" "pmi"
                       <<67, 80, 73>>, <<99, 112, 105>>, <<67, 111, 110, 115, 117, 109, 101, 114, 32, 80, 114, 105, 99, 101>>, <<99, 111, 110, 115, 117, 109, 101, 114, 32, 112, 114, 105, 99, 101>>>>  \* "CPI" "cpi" "Consumer Price" "consumer price"

BLOCK_SIZE == 400

\* any(keyword in name.lower() for keyword in keywords)
MatchesAny(name, keywords) ==
    \E i \in 1..Len(keywords) : Contains(lower(name), keywords[i])

\* cells[k] of the cleaned cells (k is Python's 0-based index), "" past the end
Cell(tds, k) == IF Len(tds) > k THEN _clean_text(Some(tds[k + 1])) ELSE <<>>

\* the loop over soup.find_all("tr")
RECURSIVE TableScan(_)
TableScan(doc) ==
    IF doc = <<>> THEN <<>>
    ELSE LET n == Head(doc)
         IN  (IF /\ n.tag = "tr"
                 /\ Len(n.tds) >= 4
                 /\ MatchesAny(Cell(n.tds, 1), TABLE_KEYWORDS)
              THEN <<[name         |-> Cell(n.tds, 1),
                      actual_raw   |-> Cell(n.tds, 2),
                      forecast_raw |-> Cell(n.tds, 3),
                      previous_raw |-> Cell(n.tds, 4)]>>
              ELSE <<>>) \o TableScan(Tail(doc))

\* percents[k] if len(percents) > k else ""
Nth(percents, k) == IF Len(percents) > k THEN percents[k + 1] ELSE <<>>

\* the fallback loop over the keyword list, from keyword i on
RECURSIVE BlockScan(_, _)
BlockScan(html, i) ==
    IF i > Len(FALLBACK_KEYWORDS) THEN <<>>
    ELSE LET kw  == FALLBACK_KEYWORDS[i]
             at  == find(lower(html), lower(kw))
         IN  IF at = -1 THEN BlockScan(html, i + 1)
             ELSE LET block == SubSeq(html, at + 1,
                                      IF at + BLOCK_SIZE < Len(html)
                                      THEN at + BLOCK_SIZE ELSE Len(html))
                      percents == FindAllPercentFrom(block, 1)
                  IN  <<[name         |-> kw,
                         actual_raw   |-> Nth(percents, 0),
                         forecast_raw |-> Nth(percents, 1),
                         previous_raw |-> Nth(percents, 2)]>>
                      \o BlockScan(html, i + 1)

\* html is None or {document}
_parse_calendar_table(html) ==
    IF html = None \/ Html(The(html)) = <<>> THEN <<>>
    ELSE LET data_rows == TableScan(The(html))
         IN  IF data_rows = <<>> THEN BlockScan(Html(The(html)), 1)
             ELSE data_rows

----------------------------------------------------------------------------
(* Normalisation: candidate rows -> readings *)

\* a selection that keeps the last matching row instead of the first
_extract_indicator_rows_last(rows, indicator_keywords) ==
    LET hits == {i \in 1..Len(rows) :
                   \E k \in 1..Len(indicator_keywords) :
                       Contains(lower(rows[i].name), indicator_keywords[k])}
    IN  IF hits = {} THEN None
        ELSE Some(rows[CHOOSE i \in hits : \A j \in hits : i >= j])

\* the first row whose lower-cased name contains a keyword, else None
_extract_indicator_rows(rows, indicator_keywords) ==
    LET hits == {i \in 1..Len(rows) :
                   \E k \in 1..Len(indicator_keywords) :
                       Contains(lower(rows[i].name), indicator_keywords[k])}
    IN  IF hits = {} THEN None
        ELSE Some(rows[CHOOSE i \in hits : \A j \in hits : i <= j])

\* a parser that hands back the reading even when no field has a number
parse_retail_sales_keeps_empty(rows) ==
    LET r == _extract_indicator_rows(rows, <<<<114, 101, 116, 97, 105, 108, 32, 115, 97, 108, 101, 115>>>>)  \* "retail sales"
    IN  IF r = None THEN None
        ELSE Some([actual   |-> _extract_numeric_percent(Some(The(r).actual_raw)),
                   forecast |-> _extract_numeric_percent(Some(The(r).forecast_raw)),
                   previous |-> _extract_numeric_percent(Some(The(r).previous_raw))])

parse_retail_sales(rows) ==
    LET r == _extract_indicator_rows(rows, <<<<114, 101, 116, 97, 105, 108, 32, 115, 97, 108, 101, 115>>>>)  \* "retail sales"
    IN  IF r = None THEN None
        ELSE LET actual   == _extract_numeric_percent(Some(The(r).actual_raw))
                 forecast == _extract_numeric_percent(Some(The(r).forecast_raw))
                 previous == _extract_numeric_percent(Some(The(r).previous_raw))
             IN  IF actual = None /\ forecast = None /\ previous = None
                 THEN None
                 ELSE Some([actual |-> actual, forecast |-> forecast,
                            previous |-> previous])

parse_pmi(rows) ==
    LET r == _extract_indicator_rows(rows, <<<<112, 109, 105>>>>)  \* "pmi"
    IN  IF r = None THEN None
        ELSE LET current == _extract_numeric_plain(Some(The(r).actual_raw))
                 prev    == _extract_numeric_plain(Some(The(r).previous_raw))
             IN  IF current = None /\ prev = None THEN None
                 ELSE Some([current |-> current, previous |-> prev])

parse_cpi(rows) ==
    LET r == _extract_indicator_rows(rows, <<<<99, 112, 105>>, <<99, 111, 110, 115, 117, 109, 101, 114, 32, 112, 114, 105, 99, 101>>, <<105, 110, 102, 108, 97, 116, 105, 111, 110>>>>)  \* "cpi" "consumer price" "inflation"
    IN  IF r = None THEN None
        ELSE LET actual   == _extract_numeric_percent(Some(The(r).actual_raw))
                 forecast == _extract_numeric_percent(Some(The(r).forecast_raw))
                 previous == _extract_numeric_percent(Some(The(r).previous_raw))
             IN  IF actual = None /\ forecast = None /\ previous = None
                 THEN None
                 ELSE Some([actual_yoy |-> actual, forecast_yoy |-> forecast,
                            previous_yoy |-> previous])

----------------------------------------------------------------------------
(* Scoring *)

\* the int 50
PMI_EXPANSION == Decimal(FALSE, <<5, 0>>, <<>>)

\* the float 2.0
CPI_HOT == Decimal(FALSE, <<2>>, <<0>>)

\* lines 251-257: the retail pillar's increment
RetailPointsStrictBoth(retail) ==
    IF retail = None THEN 0
    ELSE LET a == The(retail).actual
             f == The(retail).forecast
             p == The(retail).previous
         IN  IF a # None /\ (f # None /\ Gt(The(a), The(f))) /\ (p # None /\ Gt(The(a), The(p)))
             THEN 1 ELSE 0

RetailPoints(retail) ==
    IF retail = None THEN 0
    ELSE LET a == The(retail).actual
             f == The(retail).forecast
             p == The(retail).previous
         IN  IF a # None
             THEN IF (f # None /\ Gt(The(a), The(f))) \/ (p # None /\ Gt(The(a), The(p)))
                  THEN 1 ELSE 0
             ELSE 0

\* lines 260-267: the PMI pillar's increment
PmiPointsStrict(pmi) ==
    IF pmi = None THEN 0
    ELSE LET cur  == The(pmi).current
             prev == The(pmi).previous
         IN  IF cur # None
             THEN IF Gt(The(cur), PMI_EXPANSION) THEN 1
                  ELSE IF prev # None /\ Gt(The(cur), The(prev)) THEN 1
                  ELSE 0
             ELSE 0

PmiPoints(pmi) ==
    IF pmi = None THEN 0
    ELSE LET cur  == The(pmi).current
             prev == The(pmi).previous
         IN  IF cur # None
             THEN IF Ge(The(cur), PMI_EXPANSION) THEN 1
                  ELSE IF prev # None /\ Gt(The(cur), The(prev)) THEN 1
                  ELSE 0
             ELSE 0

\* lines 270-277: the CPI pillar's increment
CpiPointsHotAnyway(cpi) ==
    IF cpi = None THEN 0
    ELSE LET act == The(cpi).actual_yoy
             fc  == The(cpi).forecast_yoy
         IN  IF act # None
             THEN IF fc # None /\ Gt(The(act), The(fc)) THEN 1
                  ELSE IF Ge(The(act), CPI_HOT) THEN 1
                  ELSE 0
             ELSE 0

CpiPoints(cpi) ==
    IF cpi = None THEN 0
    ELSE LET act == The(cpi).actual_yoy
             fc  == The(cpi).forecast_yoy
         IN  IF act # None
             THEN IF fc # None /\ Gt(The(act), The(fc)) THEN 1
                  ELSE IF fc = None /\ act # None /\ Ge(The(act), CPI_HOT) THEN 1
                  ELSE 0
             ELSE 0

Min(a, b) == IF a < b THEN a ELSE b

Max(a, b) == IF a > b THEN a ELSE b

\* a scorer that starts from a neutral 1 when it is given no reading at all
score_region_macro_neutral_default(retail, pmi, cpi) ==
    IF retail = None /\ pmi = None /\ cpi = None THEN 1
    ELSE LET score == 0 + RetailPoints(retail) + PmiPoints(pmi) + CpiPoints(cpi)
         IN  Max(0, Min(score, 3))

score_region_macro(retail, pmi, cpi) ==
    LET score == 0 + RetailPoints(retail) + PmiPoints(pmi) + CpiPoints(cpi)
    IN  Max(0, Min(score, 3))

summarize_bias_off_by_one(score) ==
    IF score >= 2 THEN "Strong macro, bullish bias"
    ELSE IF score = 1 THEN "Supportive macro, mild bullish bias"
    ELSE IF score = 0 THEN "Neutral / mixed"
    ELSE "Weak macro, bearish bias"

summarize_bias(score) ==
    IF score >= 3 THEN "Strong macro, bullish bias"
    ELSE IF score = 2 THEN "Supportive macro, mild bullish bias"
    ELSE IF score = 1 THEN "Neutral / mixed"
    ELSE "Weak macro, bearish bias"

----------------------------------------------------------------------------
(* Configuration and the outside world *)

\* the keys in alphabetical order, as sorted(REGION_URLS) gives them
REGION_KEYS_sorted == <<"australia", "canada", "eurozone", "japan", "new_zealand",
                        "switzerland", "uk", "us">>

\* REGION_URLS.keys(), in the dict's order
REGION_KEYS == <<"us", "eurozone", "uk", "canada", "australia", "new_zealand",
                 "switzerland", "japan">>

Regions == {REGION_KEYS[i] : i \in 1..Len(REGION_KEYS)}

\* a key REGION_URLS does not hold
UNMAPPED_KEY == "mars"

\* a lookup that falls back to the US calendar for a key it does not hold
REGION_URLS_with_default(region_key) ==
    IF region_key \in Regions THEN Some(<<"m.investing.com", region_key>>)
    ELSE Some(<<"m.investing.com", "us">>)

\* REGION_URLS.get(region_key)
REGION_URLS(region_key) ==
    IF region_key \in Regions THEN Some(<<"m.investing.com", region_key>>)
    ELSE None

\* The nodes a page of the model is made of.
Node(name) ==
    CASE name = "retail_beat" ->
           Tr(<<<<49, 48, 58, 48, 48>>, <<82, 101, 116, 97, 105, 108, 32, 83, 97, 108, 101, 115, 32, 40, 77, 111, 77, 41>>, <<48, 46, 55, 37>>, <<48, 46, 50, 37>>, <<48, 46, 51, 37>>>>)  \* "10:00" "Retail Sales (MoM)" "0.7%" "0.2%" "0.3%"
      [] name = "retail_miss" ->
           Tr(<<<<49, 48, 58, 48, 48>>, <<32, 67, 111, 114, 101, 32, 32, 82, 101, 116, 97, 105, 108, 32, 83, 97, 108, 101, 115, 32>>, <<48, 46, 49, 37>>, <<48, 46, 50, 37>>, <<48, 46, 51, 37>>>>)  \* "10:00" " Core  Retail Sales " "0.1%" "0.2%" "0.3%"
      [] name = "retail_na" ->
           Tr(<<<<49, 48, 58, 48, 48>>, <<82, 101, 116, 97, 105, 108, 32, 83, 97, 108, 101, 115, 32, 40, 89, 111, 89, 41>>, <<78, 47, 65>>, <<>>, <<>>>>)  \* "10:00" "Retail Sales (YoY)" "N/A" "" ""
      [] name = "pmi_up" ->
           Tr(<<<<48, 57, 58, 52, 53>>, <<77, 97, 110, 117, 102, 97, 99, 116, 117, 114, 105, 110, 103, 32, 80, 77, 73>>, <<53, 53, 46, 48>>, <<53, 51, 46, 49>>, <<53, 50, 46, 48>>>>)  \* "09:45" "Manufacturing PMI" "55.0" "53.1" "52.0"
      [] name = "pmi_edge" ->
           Tr(<<<<48, 57, 58, 52, 53>>, <<83, 101, 114, 118, 105, 99, 101, 115, 32, 80, 77, 73>>, <<53, 48, 46, 48>>, <<53, 48, 46, 53>>, <<53, 49, 46, 48>>, <<110, 111, 116, 101>>>>)  \* "09:45" "Services PMI" "50.0" "50.5" "51.0" "note"
      [] name = "pmi_low" ->
           Tr(<<<<48, 57, 58, 52, 53>>, <<67, 111, 109, 112, 111, 115, 105, 116, 101, 32, 80, 77, 73>>, <<52, 56, 46, 53>>, <<52, 57, 46, 48>>>>)  \* "09:45" "Composite PMI" "48.5" "49.0"
      [] name = "cpi_hot" ->
           Tr(<<<<49, 51, 58, 51, 48>>, <<67, 80, 73, 32, 40, 89, 111, 89, 41>>, <<51, 46, 53, 37>>, <<51, 46, 48, 37>>, <<51, 46, 50, 37>>>>)  \* "13:30" "CPI (YoY)" "3.5%" "3.0%" "3.2%"
      [] name = "cpi_nofc" ->
           Tr(<<<<49, 51, 58, 51, 48>>, <<73, 110, 102, 108, 97, 116, 105, 111, 110, 32, 82, 97, 116, 101>>, <<50, 46, 48, 32, 37>>, <<>>, <<49, 46, 57, 37>>>>)  \* "13:30" "Inflation Rate" "2.0 %" "" "1.9%"
      [] name = "cpi_cool" ->
           Tr(<<<<49, 51, 58, 51, 48>>, <<67, 111, 110, 115, 117, 109, 101, 114, 32, 80, 114, 105, 99, 101, 32, 73, 110, 100, 101, 120>>, <<49, 46, 57, 37>>, <<110, 47, 97>>, <<45, 48, 46, 53, 37>>>>)  \* "13:30" "Consumer Price Index" "1.9%" "n/a" "-0.5%"
      [] name = "gdp" ->
           Tr(<<<<49, 51, 58, 51, 48>>, <<71, 68, 80, 32, 40, 81, 111, 81, 41>>, <<48, 46, 52, 37>>, <<48, 46, 51, 37>>, <<48, 46, 50, 37>>>>)  \* "13:30" "GDP (QoQ)" "0.4%" "0.3%" "0.2%"
      [] name = "short_pmi" ->
           Tr(<<<<80, 77, 73>>, <<53, 49, 46, 50, 37>>, <<53, 48, 46, 49, 37>>>>)  \* "PMI" "51.2%" "50.1%"
      [] name = "text_retail" ->
           Text(<<82, 101, 116, 97, 105, 108, 32, 83, 97, 108, 101, 115, 32, 114, 111, 115, 101, 32, 48, 46, 53, 37, 32, 40, 102, 111, 114, 101, 99, 97, 115, 116, 32, 48, 46, 50, 37, 44, 32, 112, 114, 101, 118, 105, 111, 117, 115, 32, 48, 46, 51, 37, 41>>)  \* "Retail Sales rose 0.5% (forecast 0.2%, previous 0.3%)"
      [] name = "text_blocked" ->
           Text(<<65, 99, 99, 101, 115, 115, 32, 100, 101, 110, 105, 101, 100>>)  \* "Access denied"
      [] name = "pmi_jan" ->
           Tr(<<<<50, 48, 50, 53, 45, 48, 49, 45, 48, 49>>, <<77, 97, 110, 117, 102, 97, 99, 116, 117, 114, 105, 110, 103, 32, 80, 77, 73>>, <<53, 49, 46, 48>>, <<53, 48, 46, 56>>, <<53, 48, 46, 53>>>>)  \* "2025-01-01" "Manufacturing PMI" "51.0" "50.8" "50.5"
      [] name = "pmi_feb" ->
           Tr(<<<<50, 48, 50, 53, 45, 48, 50, 45, 48, 49>>, <<77, 97, 110, 117, 102, 97, 99, 116, 117, 114, 105, 110, 103, 32, 80, 77, 73>>, <<53, 50, 46, 48>>, <<53, 49, 46, 53>>, <<53, 49, 46, 48>>>>)  \* "2025-02-01" "Manufacturing PMI" "52.0" "51.5" "51.0"
      [] name = "pmi_undated" ->
           Tr(<<<<>>, <<83, 101, 114, 118, 105, 99, 101, 115, 32, 80, 77, 73>>, <<53, 51, 46, 48>>, <<>>, <<53, 50, 46, 53>>>>)  \* "" "Services PMI" "53.0" "" "52.5"
      [] name = "pmi_na" ->
           Tr(<<<<116, 111, 109, 111, 114, 114, 111, 119>>, <<67, 111, 109, 112, 111, 115, 105, 116, 101, 32, 80, 77, 73>>, <<78, 47, 65>>, <<53, 48, 46, 53>>, <<45>>>>)  \* "tomorrow" "Composite PMI" "N/A" "50.5" "-"
      [] name = "cpi_na" ->
           Tr(<<<<49, 51, 58, 51, 48>>, <<73, 110, 102, 108, 97, 116, 105, 111, 110, 32, 82, 97, 116, 101, 32, 40, 89, 111, 89, 41>>, <<110, 47, 97>>, <<>>, <<112, 101, 110, 100, 105, 110, 103>>>>)  \* "13:30" "Inflation Rate (YoY)" "n/a" "" "pending"
      [] name = "retail_zero" ->
           Tr(<<<<49, 48, 58, 48, 48>>, <<82, 101, 116, 97, 105, 108, 32, 83, 97, 108, 101, 115, 32, 40, 81, 111, 81, 41>>, <<48, 46, 48, 37>>, <<>>, <<>>>>)  \* "10:00" "Retail Sales (QoQ)" "0.0%" "" ""
      [] name = "text_inflation" ->
           Text(<<73, 110, 102, 108, 97, 116, 105, 111, 110, 32, 114, 97, 116, 101, 32, 50, 46, 53, 37, 32, 40, 102, 111, 114, 101, 99, 97, 115, 116, 32, 50, 46, 52, 37, 41>>)  \* "Inflation rate 2.5% (forecast 2.4%)"
      [] name = "text_cpi" ->
           Text(<<67, 111, 114, 101, 32, 67, 80, 73, 32, 51, 46, 49, 37, 32, 51, 46, 48, 32, 37, 32, 43, 50, 46, 57, 37, 32, 50, 46, 56, 37>>)  \* "Core CPI 3.1% 3.0 % +2.9% 2.8%"
      [] name = "pmi_fine" ->
           Tr(<<<<48, 57, 58, 52, 53>>, <<77, 97, 110, 117, 102, 97, 99, 116, 117, 114, 105, 110, 103, 160, 80, 77, 73>>, <<52, 57, 46, 57, 57, 57>>, <<>>, <<52, 57, 46, 57, 57>>>>)  \* "09:45" "Manufacturing\xa0PMI" "49.999" "" "49.99"
      [] name = "retail_fine" ->
           Tr(<<<<49, 48, 58, 48, 48>>, <<82, 101, 116, 97, 105, 108, 13, 83, 97, 108, 101, 115, 32, 40, 77, 111, 77, 41>>, <<48, 46, 49, 50, 53, 160, 37>>, <<48, 46, 49, 50, 37>>, <<>>>>)  \* "10:00" "Retail\rSales (MoM)" "0.125\xa0%" "0.12%" ""
      [] name = "text_cr" ->
           Text(<<80, 77, 73, 32, 53, 49, 46, 50, 13, 37, 32, 53, 48, 46, 49, 37>>)  \* "PMI 51.2\r% 50.1%"
      [] name = "text_far" ->
           Text(<<67, 111, 110, 115, 117, 109, 101, 114, 32, 80, 114, 105, 99, 101, 32, 73, 110, 100, 101, 120, 32, 49, 46, 53, 37>> \o [i \in 1..BLOCK_SIZE |-> 32]  \* "Consumer Price Index 1.5%" ' '
                \o <<57, 46, 57, 37, 32, 56, 46, 56, 37>>)  \* "9.9% 8.8%"
      [] name = "pmi_rounded" ->
           Tr(<<<<48, 57, 58, 52, 53>>, <<67, 111, 109, 112, 111, 115, 105, 116, 101, 32, 80, 77, 73>>, <<52, 57, 46, 57, 57, 57, 57, 57, 57, 57, 57, 57, 57, 57, 57, 57, 57, 57, 57, 57>>, <<>>,  \* "09:45" "Composite PMI" "49.99999999999999999" ""
                <<48, 46, 49, 48, 48, 48, 48, 48, 48, 48, 48, 48, 48, 48, 48, 48, 48, 48, 48, 48, 48, 49>>>>)  \* "0.10000000000000000001"
      [] name = "pmi_persian" ->
           Tr(<<<<48, 57, 58, 52, 53>>, <<201, 67, 79, 78, 79, 77, 73, 69, 32, 80, 77, 73>>, <<1781, 1777, 46, 1778>>, <<>>, <<53, 1776, 46, 1776>>>>)  \* "09:45" "\xc9CONOMIE PMI" "\u06f5\u06f1.\u06f2" "" "5\u06f0.\u06f0"
      [] name = "cpi_markup" ->
           Tr(<<<<49, 51, 58, 51, 48>>, <<67, 80, 73, 32, 60, 89, 111, 89, 62, 32, 38, 32, 99, 111, 114, 101>>, <<50, 46, 53, 37>>, <<60, 98, 62, 50, 46, 52, 37, 60, 47, 98, 62>>, <<>>>>)  \* "13:30" "CPI <YoY> & core" "2.5%" "<b>2.4%</b>" ""
      [] name = "text_markup" ->
           Text(<<82, 38, 68, 58, 32, 82, 101, 116, 97, 105, 108, 32, 83, 97, 108, 101, 115, 32, 48, 46, 53, 37, 32, 62, 32, 48, 46, 50, 37>>)  \* "R&D: Retail Sales 0.5% > 0.2%"
      [] name = "text_turkish" ->
           Text(<<304, 83, 84, 65, 78, 66, 85, 76, 32, 927, 916, 927, 931, 32, 80, 77, 73, 32, 53, 49, 46, 50, 37, 32, 53, 48, 46, 49, 37>>)  \* "\u0130STANBUL \u039f\u0394\u039f\u03a3 PMI 51.2% 50.1%"

TableNodes == {"retail_beat", "retail_miss", "retail_na", "pmi_up", "pmi_edge",
               "pmi_low", "cpi_hot", "cpi_nofc", "cpi_cool", "gdp", "pmi_fine",
               "retail_fine"}

LooseNodes == {"short_pmi", "text_retail", "text_blocked"}

MaxPageNodes == 2

BULLISH_PAGE == <<"retail_beat", "pmi_up", "cpi_hot">>

MIXED_PAGE == <<"gdp", "retail_miss", "pmi_edge", "cpi_nofc">>

\* a page whose PMI numerals have more digits than a double holds
ROUNDED_PAGE == <<"pmi_rounded", "cpi_markup">>

\* a page that writes its PMI in Persian digits under a French heading
UNICODE_PAGE == <<"pmi_persian">>

\* A page is named by the nodes it holds, in document order.
Pages ==
    UNION {[1..n -> TableNodes] : n \in 0..MaxPageNodes}
    \cup {<<a>> : a \in LooseNodes}
    \cup {<<a, b>> : a \in LooseNodes, b \in {"gdp", "text_blocked"}}
    \cup {BULLISH_PAGE, MIXED_PAGE, ROUNDED_PAGE, UNICODE_PAGE}

\* the document of a page
PageDoc(page) == [i \in 1..Len(page) |-> Node(page[i])]

\* what requests.get does: it raises (connection error, timeout), or it
\* returns a response with a status code and a body
Raises == [raises |-> TRUE, status_code |-> 0, page |-> <<>>]

Response(status, page) == [raises |-> FALSE, status_code |-> status, page |-> page]

HTTP_OK == 200

StatusCodes == {HTTP_OK, 403, 503}

Responses ==
    {Raises} \cup {Response(HTTP_OK, p) : p \in Pages}
    \cup {Response(s, p) : s \in StatusCodes \ {HTTP_OK},
                           p \in {<<>>, <<"text_blocked">>, BULLISH_PAGE}}

----------------------------------------------------------------------------
(* Fetcher and per-region pipeline *)

\* a fetcher that hands back the body whatever the status code
_fetch_calendar_html_any_status(url, response) ==
    IF url = None THEN None
    ELSE IF response.raises THEN None
    ELSE IF Html(PageDoc(response.page)) # <<>> THEN Some(PageDoc(response.page))
    ELSE None

\* `response` is what requests.get(url, ...) does when it is called
_fetch_calendar_html(url, response) ==
    IF url = None THEN None
    ELSE IF response.raises THEN None
    ELSE IF response.status_code = HTTP_OK /\ Html(PageDoc(response.page)) # <<>>
         THEN Some(PageDoc(response.page))
    ELSE None

\* Each value is bound once it is computed, as Python's assignments do:
\* x \in {e} names the value of e.
RegionMacroOfRows(rows) ==
    The({ The({ [retail |-> retail, pmi |-> pmi, cpi |-> cpi,
                 score |-> score, bias |-> summarize_bias(score)]
                : score \in {score_region_macro(retail, pmi, cpi)} })
          : retail \in {parse_retail_sales(rows)},
            pmi    \in {parse_pmi(rows)},
            cpi    \in {parse_cpi(rows)} })

get_region_macro(region_key, response) ==
    The({ The({ RegionMacroOfRows(rows) : rows \in {_parse_calendar_table(html)} })
          : html \in {_fetch_calendar_html(REGION_URLS(region_key), response)} })

----------------------------------------------------------------------------
(* Inputs of the pure-function specifications *)

Optional(S) == {None} \cup {Some(v) : v \in S}

RetailNumbers == {float(<<48, 46, 50>>), float(<<48, 46, 51>>), float(<<48, 46, 55, 48>>)}  \* "0.2" "0.3" "0.70"

PmiNumbers == {float(<<52, 57, 46, 57, 57>>), float(<<52, 57, 46, 57, 57, 57>>), float(<<53, 48, 46, 48>>), float(<<53, 49, 46, 48>>),  \* "49.99" "49.999" "50.0" "51.0"
               float(<<53, 50, 46, 48>>), float(<<53, 53, 46, 48>>)}  \* "52.0" "55.0"

CpiNumbers == {float(<<49, 46, 57>>), float(<<49, 46, 57, 57, 57>>), float(<<50, 46, 48>>), float(<<51, 46, 48>>),  \* "1.9" "1.999" "2.0" "3.0"
               float(<<51, 46, 53>>)}  \* "3.5"

RetailReadings ==
    Optional([actual : Optional(RetailNumbers), forecast : Optional(RetailNumbers),
              previous : Optional(RetailNumbers)])

PmiReadings ==
    Optional([current : Optional(PmiNumbers), previous : Optional(PmiNumbers)])

CpiReadings ==
    Optional([actual_yoy : Optional(CpiNumbers), forecast_yoy : Optional(CpiNumbers),
              previous_yoy : {None}])

----------------------------------------------------------------------------
(* The snapshot cache: get_macro_snapshot_all under @st.cache_data(ttl=43200).

   The decorator keeps one entry per argument tuple (here: one slot) and
   serves it while it is younger than ttl seconds.  A call that misses runs
   the function and the value it returns is stored; the function's local dict
   is not visible to anyone before that.  Each browser session runs its page
   script on a thread of its own, so the two pages can call at the same time.
   The source takes no lock, so two calls that both miss may both run the
   function, each on a dict of its own. *)

\* the two scripts that call get_macro_snapshot_all
Callers == {"Home", "Dashboard"}

TTL == 43200

\* the clock advances in steps of half a TTL
TickLen == TTL \div 2

MaxTicks == 3

\* the steps of the clock while the two pages race
MaxRaceTicks == 2

MaxWebChanges == 1

EmptyDict == [k \in {} |-> 0]

\* d[k] = v on a dict
Put(d, k, v) == [x \in DOMAIN d \cup {k} |-> IF x = k THEN v ELSE d[x]]

\* what a region's URL answers when the site is up, and how it fails otherwise
PageOf(r) ==
    CASE r = "us"          -> Response(HTTP_OK, BULLISH_PAGE)
      [] r = "eurozone"    -> Response(HTTP_OK, MIXED_PAGE)
      [] r = "uk"          -> Response(HTTP_OK, <<"cpi_cool", "pmi_low">>)
      [] r = "canada"      -> Response(HTTP_OK, <<"text_retail">>)
      [] r = "australia"   -> Response(HTTP_OK, <<"gdp">>)
      [] r = "new_zealand" -> Response(HTTP_OK, <<"retail_na", "retail_beat">>)
      [] r = "switzerland" -> Response(HTTP_OK, <<"short_pmi">>)
      [] r = "japan"       -> Response(HTTP_OK, <<"pmi_up", "cpi_nofc">>)

FailureOf(r) ==
    CASE r = "us"          -> Raises
      [] r = "eurozone"    -> Response(503, BULLISH_PAGE)
      [] r = "uk"          -> Response(HTTP_OK, <<>>)
      [] r = "canada"      -> Response(403, <<"text_blocked">>)
      [] r = "australia"   -> Raises
      [] r = "new_zealand" -> Response(503, <<>>)
      [] r = "switzerland" -> Response(403, BULLISH_PAGE)
      [] r = "japan"       -> Response(HTTP_OK, <<>>)

\* the claim's notion of a failed fetch: exception or timeout, non-200
\* status, empty body
IsFailure(response) ==
    \/ response.raises
    \/ response.status_code # HTTP_OK
    \/ Html(PageDoc(response.page)) = <<>>

\* the site with exactly the regions of `down` failing
World(down) == [r \in Regions |-> IF r \in down THEN FailureOf(r) ELSE PageOf(r)]

Worlds == {World(down) : down \in SUBSET Regions}

\* the states of the site the cache specifications move between
WEB_UP == World({})

WEB_PARTLY_DOWN == World({"us"})

Webs == {WEB_UP, WEB_PARTLY_DOWN}

\* get_region_macro(region_key) for each answer the site can give, computed once
RegionMacroTable ==
    [r \in Regions |-> [resp \in {PageOf(r), FailureOf(r)} |-> get_region_macro(r, resp)]]

\* datetime.utcnow().strftime("%Y-%m-%d %H:%M UTC"): the clock cut to the minute
last_updated_stamp(t) == <<"UTC minute", t \div 60>>

\* the entry written at `written` has expired at time t
ExpiredLate(written, t) == t - written > TTL

Expired(written, t) == t - written >= TTL

\* the cache's lookup at time t: the stored value, or None on a miss
cache_read(t) ==
    IF cache # None /\ ~Expired(The(cache).written, t)
    THEN Some(The(cache).value) ELSE None

\* the loop over REGION_URLS.keys() has run out
LoopDoneEarly(i) == i > Len(REGION_KEYS) - 1

LoopDone(i) == i > Len(REGION_KEYS)

NoCall == [c \in Callers |-> None]

CacheIdle ==
    /\ now = 0
    /\ webChanges = 0
    /\ cache = None
    /\ pc = [c \in Callers |-> "idle"]
    /\ idx = [c \in Callers |-> 0]
    /\ snapshot = [c \in Callers |-> EmptyDict]
    /\ ret = [c \in Callers |-> None]
    /\ fetched = [c \in Callers |-> <<>>]
    /\ answers = [c \in Callers |-> EmptyDict]
    /\ callInfo = NoCall
    /\ builds = <<>>

cacheVars == <<now, web, webChanges, cache, pc, idx, snapshot, ret,
               fetched, answers, callInfo, builds>>

\* a page script calls get_macro_snapshot_all(): the wrapper looks in the
\* cache; on a miss the function body starts (line 326: snapshot = {})
Call(c) ==
    /\ pc[c] = "idle"
    /\ fetched' = [fetched EXCEPT ![c] = <<>>]
    /\ answers' = [answers EXCEPT ![c] = EmptyDict]
    /\ IF cache_read(now) # None
       THEN /\ ret' = [ret EXCEPT ![c] = cache_read(now)]
            /\ pc' = [pc EXCEPT ![c] = "done"]
            /\ callInfo' = [callInfo EXCEPT ![c] =
                  Some([at |-> now, nbuilds |-> Len(builds), start |-> None,
                        returned |-> Some(now)])]
            /\ UNCHANGED <<idx, snapshot>>
       ELSE /\ ret' = [ret EXCEPT ![c] = None]
            /\ pc' = [pc EXCEPT ![c] = "build"]
            /\ idx' = [idx EXCEPT ![c] = 1]
            /\ snapshot' = [snapshot EXCEPT ![c] = EmptyDict]
            /\ callInfo' = [callInfo EXCEPT ![c] =
                  Some([at |-> now, nbuilds |-> Len(builds), start |-> Some(now),
                        returned |-> None])]
    /\ UNCHANGED <<call, result, now, web, webChanges, cache, builds>>

\* one turn of the loop (lines 327-328): snapshot[region_key] = get_region_macro(region_key)
FetchRegion(c) ==
    /\ pc[c] = "build"
    /\ ~LoopDone(idx[c])
    /\ LET region_key == REGION_KEYS[idx[c]]
       IN  /\ snapshot' = [snapshot EXCEPT ![c] =
                 Put(@, region_key, RegionMacroTable[region_key][web[region_key]])]
           /\ fetched' = [fetched EXCEPT ![c] = Append(@, region_key)]
           /\ answers' = [answers EXCEPT ![c] = Put(@, region_key, web[region_key])]
    /\ idx' = [idx EXCEPT ![c] = @ + 1]
    /\ UNCHANGED <<call, result, now, web, webChanges, cache, pc, ret,
                   callInfo, builds>>

\* lines 330-331: stamp and return; the wrapper stores the value
Return(c) ==
    /\ pc[c] = "build"
    /\ LoopDone(idx[c])
    /\ LET value == Put(snapshot[c], "last_updated", last_updated_stamp(now))
       IN  /\ cache' = Some([value |-> value, written |-> now])
           /\ ret' = [ret EXCEPT ![c] = Some(value)]
           /\ builds' = Append(builds, [by |-> c, start |-> The(The(callInfo[c]).start),
                                        end |-> now, value |-> value])
    /\ pc' = [pc EXCEPT ![c] = "done"]
    /\ idx' = [idx EXCEPT ![c] = 0]
    /\ snapshot' = [snapshot EXCEPT ![c] = EmptyDict]
    /\ callInfo' = [callInfo EXCEPT ![c] = Some([The(@) EXCEPT !.returned = Some(now)])]
    /\ UNCHANGED <<call, result, now, web, webChanges, fetched, answers>>

\* the page script has used the snapshot and its run ends
Finish(c) ==
    /\ pc[c] = "done"
    /\ pc' = [pc EXCEPT ![c] = "idle"]
    /\ ret' = [ret EXCEPT ![c] = None]
    /\ fetched' = [fetched EXCEPT ![c] = <<>>]
    /\ answers' = [answers EXCEPT ![c] = EmptyDict]
    /\ callInfo' = [callInfo EXCEPT ![c] = None]
    /\ UNCHANGED <<call, result, now, web, webChanges, cache, idx,
                   snapshot, builds>>

\* time passes, up to n steps of the clock
TickTo(n) ==
    /\ now < n * TickLen
    /\ now' = now + TickLen
    /\ UNCHANGED <<call, result, web, webChanges, cache, pc, idx,
                   snapshot, ret, fetched, answers, callInfo, builds>>

Tick == TickTo(MaxTicks)

RaceTick == TickTo(MaxRaceTicks)

\* regions' pages stop or start answering
WebChange ==
    /\ webChanges < MaxWebChanges
    /\ web' \in Webs \ {web}
    /\ webChanges' = webChanges + 1
    /\ UNCHANGED <<call, result, now, cache, pc, idx, snapshot, ret,
                   fetched, answers, callInfo, builds>>

----------------------------------------------------------------------------
(* Specification ScoreSpec: score_region_macro applied to any three readings *)

ScoreInit ==
    /\ call \in [fn : {"score_region_macro"}, retail : RetailReadings,
                 pmi : PmiReadings, cpi : CpiReadings]
    /\ result = None
    /\ web = World({})
    /\ CacheIdle

ScoreCall ==
    /\ call.fn = "score_region_macro"
    /\ result = None
    /\ result' = Some(score_region_macro(call.retail, call.pmi, call.cpi))
    /\ UNCHANGED <<call, cacheVars>>

ScoreNext == ScoreCall

ScoreSpec == ScoreInit /\ [][ScoreNext]_vars

----------------------------------------------------------------------------
(* Specification RegionSpec: get_region_macro called with any key, whatever
   the region's URL answers *)

RegionInit ==
    /\ call \in [fn : {"get_region_macro"},
                 region_key : Regions \cup {UNMAPPED_KEY},
                 response : Responses]
    /\ result = None
    /\ web = World({})
    /\ CacheIdle

RegionCall ==
    /\ call.fn = "get_region_macro"
    /\ result = None
    /\ result' = Some(get_region_macro(call.region_key, call.response))
    /\ UNCHANGED <<call, cacheVars>>

RegionNext == RegionCall

RegionSpec == RegionInit /\ [][RegionNext]_vars

----------------------------------------------------------------------------
(* Specification Spec: the two pages call get_macro_snapshot_all whenever
   they like, while time passes and the site changes *)

Init ==
    /\ call = [fn |-> "get_macro_snapshot_all"]
    /\ result = None
    /\ web \in Webs
    /\ CacheIdle

Next ==
    \/ \E c \in Callers :
          Call(c) \/ FetchRegion(c) \/ Return(c) \/ Finish(c)
    \/ RaceTick
    \/ WebChange

Spec == Init /\ [][Next]_vars

----------------------------------------------------------------------------
(* Specification SeqSpec: one call after another, none of them overlapping *)

SeqNext ==
    \/ \E c \in {"Home"} :
          Call(c) \/ FetchRegion(c) \/ Return(c) \/ Finish(c)
    \/ Tick
    \/ WebChange

SeqSpec == Init /\ [][SeqNext]_vars

----------------------------------------------------------------------------
(* Specification BuildSpec: one build on a cold cache, with any set of
   regions failing *)

BuildInit ==
    /\ call = [fn |-> "get_macro_snapshot_all"]
    /\ result = None
    /\ web \in Worlds
    /\ CacheIdle

BuildNext ==
    \E c \in {"Home"} : Call(c) \/ FetchRegion(c) \/ Return(c)

BuildSpec == BuildInit /\ [][BuildNext]_vars

----------------------------------------------------------------------------
(* Specification ExtractSpec: get_region_macro from the fetched text on
   (lines 302-306): the candidate rows of a page and the three readings
   taken from them *)

\* rows of the economic calendar as the site dates them, rows without
\* numbers, and text outside any table
ExtractNodes ==
    {"pmi_jan", "pmi_feb", "pmi_undated", "pmi_na", "cpi_na", "cpi_hot",
     "retail_na", "retail_zero", "retail_beat", "gdp", "short_pmi",
     "text_retail", "text_inflation", "text_cpi", "text_far", "text_blocked",
     "pmi_fine", "retail_fine", "text_cr"}

\* pages of characters and numerals beyond ASCII and beyond a double's digits
SpecialPages ==
    {ROUNDED_PAGE, UNICODE_PAGE, <<"text_markup">>, <<"text_turkish">>,
     <<"cpi_markup", "text_markup">>, <<"pmi_persian", "pmi_rounded">>}

ExtractPages ==
    UNION {[1..n -> ExtractNodes] : n \in 0..MaxPageNodes} \cup SpecialPages

ExtractInit ==
    /\ call \in [fn : {"_parse_calendar_table"}, page : ExtractPages]
    /\ result = None
    /\ web = World({})
    /\ CacheIdle

ExtractCall ==
    /\ call.fn = "_parse_calendar_table"
    /\ result = None
    /\ result' =
          The({ Some([rows   |-> rows,
                      retail |-> parse_retail_sales(rows),
                      pmi    |-> parse_pmi(rows),
                      cpi    |-> parse_cpi(rows)])
                : rows \in {_parse_calendar_table(Some(PageDoc(call.page)))} })
    /\ UNCHANGED <<call, cacheVars>>

ExtractNext == ExtractCall

ExtractSpec == ExtractInit /\ [][ExtractNext]_vars

----------------------------------------------------------------------------
(* Properties *)

\* C1: every RegionMacro that get_region_macro returns, for any key, any
\* fetch outcome and any page, has a score among 0, 1, 2, 3 and the bias
\* string of that score: 3 Strong, 2 Supportive, 1 Neutral, 0 Weak.
C1_ScoreAndBias ==
    \A m \in result :
        /\ m.score \in 0..3
        /\ <<m.score, m.bias>> \in
              { <<3, "Strong macro, bullish bias">>,
                <<2, "Supportive macro, mild bullish bias">>,
                <<1, "Neutral / mixed">>,
                <<0, "Weak macro, bearish bias">> }

\* C1 witness: a configured region's page scored 2, one short of the top
C1_Witness ==
    /\ call.region_key \in Regions
    /\ \E m \in result : m.score = 2 /\ m.retail # None /\ m.cpi # None

\* C2: a call made less than TTL after the last build returns that build's
\* snapshot unchanged, stamp included, and fetches nothing; a call made on
\* an empty cache or TTL or more after the last build fetches every region
\* anew and returns the snapshot it built; so what a call returns was built
\* less than TTL before it is returned.
C2_TtlWindow ==
    pc["Home"] = "done" =>
        LET info  == The(callInfo["Home"])
            fresh == /\ info.nbuilds > 0
                     /\ info.at - builds[info.nbuilds].end < 12 * 3600
        IN  /\ fresh =>
                 /\ ret["Home"] = Some(builds[info.nbuilds].value)
                 /\ fetched["Home"] = <<>>
                 /\ Len(builds) = info.nbuilds
            /\ ~fresh =>
                 /\ fetched["Home"] = REGION_KEYS
                 /\ Len(builds) = info.nbuilds + 1
                 /\ ret["Home"] = Some(builds[Len(builds)].value)
                 /\ builds[Len(builds)].start >= info.at
                 /\ builds[Len(builds)].value["last_updated"]
                       = last_updated_stamp(builds[Len(builds)].end)
            /\ \E i \in 1..Len(builds) :
                 /\ ret["Home"] = Some(builds[i].value)
                 /\ The(info.returned) - builds[i].end < 12 * 3600

\* C2 witness: a call made exactly TTL after the first build has rebuilt
C2_Witness ==
    /\ pc["Home"] = "done"
    /\ Len(builds) = 2
    /\ \E info \in callInfo["Home"] :
          /\ info.nbuilds = 1
          /\ info.at - builds[1].end = 12 * 3600

\* C3: whatever a caller is handed holds an entry for every configured
\* region and the stamp of the build that made those entries, also while
\* another caller's rebuild has filled in only some regions; the cache never
\* stores less.
C3_NoPartialSnapshot ==
    /\ \A c \in Callers : \A v \in ret[c] :
          /\ DOMAIN v = Regions \cup {"last_updated"}
          /\ \E i \in 1..Len(builds) :
                /\ v = builds[i].value
                /\ v["last_updated"] = last_updated_stamp(builds[i].end)
          /\ \A d \in Callers : pc[d] = "build" => v # snapshot[d]
    /\ \A e \in cache : DOMAIN e.value = Regions \cup {"last_updated"}

\* C3 witness: one caller holds a returned snapshot while the other's
\* rebuild is part-way through the regions
C3_Witness ==
    \E c, d \in Callers :
        /\ pc[c] = "done" /\ ret[c] # None
        /\ pc[d] = "build" /\ idx[d] > 1 /\ ~LoopDone(idx[d])
        /\ DOMAIN snapshot[d] # {} /\ DOMAIN snapshot[d] # Regions

\* C4: callers racing on a cold or expired cache cause one rebuild: no two
\* callers run the region loop at once, and a rebuild starts only TTL or
\* more after the build before it ended.  The source takes no lock, so
\* this rests on the cache wrapper letting one caller compute at a time,
\* which the source does not show; where two calls that miss both run the
\* function, it fails.
C4_OneRebuildPerWindow ==
    /\ Cardinality({c \in Callers : pc[c] = "build"}) <= 1
    /\ \A i \in 2..Len(builds) : builds[i].start - builds[i - 1].end >= 12 * 3600
    /\ \A c \in Callers :
          (pc[c] = "build" /\ builds # <<>>) =>
              The(The(callInfo[c]).start) - builds[Len(builds)].end >= 12 * 3600
    /\ \A c \in Callers :
          (pc[c] = "done" /\ fetched[c] # <<>>) =>
              /\ fetched[c] = REGION_KEYS
              /\ \E i \in 1..Len(builds) :
                    builds[i].by = c /\ ret[c] = Some(builds[i].value)

\* C4's case: both pages have missed the cold cache and both are part-way
\* through the region loop
C4_RacingBuilds ==
    /\ builds = <<>>
    /\ \A c \in Callers : pc[c] = "build" /\ idx[c] > 1

\* C5: whichever regions' fetches fail (exception or timeout, non-200
\* status, empty body), the fetcher gives None for them, the build goes on to
\* its end, the snapshot has an entry for every configured region, a failed
\* region's retail, pmi and cpi are all absent, and every other region's
\* entry is what it is when no fetch fails.
C5_FailureIsolation ==
    /\ \A r \in Regions :
          IsFailure(web[r]) => _fetch_calendar_html(REGION_URLS(r), web[r]) = None
    /\ pc["Home"] # "done" => ENABLED BuildNext
    /\ pc["Home"] = "done" =>
          /\ ret["Home"] # None
          /\ \A v \in ret["Home"] :
                /\ Regions \subseteq DOMAIN v
                /\ \A r \in Regions :
                      IF IsFailure(web[r])
                      THEN v[r].retail = None /\ v[r].pmi = None /\ v[r].cpi = None
                      ELSE v[r] = get_region_macro(r, PageOf(r))

\* C5 witness: a finished build in which a region answered 503 with a full
\* page, another raised, and a third was read
C5_Witness ==
    /\ pc["Home"] = "done" /\ ret["Home"] # None
    /\ web["us"].raises
    /\ web["eurozone"].status_code = 503
    /\ ~IsFailure(web["japan"])
    /\ \E v \in ret["Home"] : v["japan"].pmi # None

\* C6 as claimed: get_region_macro with a key that has no URL returns
\* score 1, bias "Neutral / mixed", and retail, pmi and cpi absent.
C6_UnmappedIsNeutral ==
    \A m \in result :
        REGION_URLS(call.region_key) = None =>
            /\ m.score = 1
            /\ m.bias = "Neutral / mixed"
            /\ m.retail = None /\ m.pmi = None /\ m.cpi = None

\* C6 amended: get_region_macro with a key that has no URL reads nothing of
\* what the site would answer and returns score 0, bias "Weak macro,
\* bearish bias", and retail, pmi and cpi absent.
C6_UnmappedIsWeak ==
    \A m \in result :
        call.region_key \notin Regions =>
            /\ m.score = 0
            /\ m.bias = "Weak macro, bearish bias"
            /\ m.retail = None /\ m.pmi = None /\ m.cpi = None

\* C6 witness: an unmapped key, called while the site would serve a page
\* with all three indicators
C6_Witness ==
    /\ call.region_key = UNMAPPED_KEY
    /\ call.response = Response(HTTP_OK, BULLISH_PAGE)
    /\ result # None

\* C7: with retail, pmi and cpi all absent the score is 0 and the bias
\* "Weak macro, bearish bias", never 1: so for a configured region whose
\* fetch failed or whose page matched no indicator; a configured region
\* scores 1 only on the strength of a reading.
C7_AbsenceScoresZero ==
    \A m \in result :
        /\ (m.retail = None /\ m.pmi = None /\ m.cpi = None) =>
              m.score = 0 /\ m.bias = "Weak macro, bearish bias"
        /\ (call.region_key \in Regions /\ IsFailure(call.response)) =>
              m.score = 0 /\ m.bias = "Weak macro, bearish bias"
        /\ (call.region_key \in Regions /\ m.score = 1) =>
              (m.retail # None \/ m.pmi # None \/ m.cpi # None)

\* C7 witness: a configured region whose page was read and holds no indicator
C7_Witness ==
    /\ call.region_key \in Regions
    /\ call.response = Response(HTTP_OK, <<"gdp">>)
    /\ \E m \in result : m.retail = None /\ m.pmi = None /\ m.cpi = None

\* C8: the PMI reading adds exactly 1 to the score when current is present
\* and at least 50, whatever previous is; else 1 when current and previous
\* are present and current > previous; else 0.
C8_PmiRule ==
    \A s \in result :
        s = score_region_macro(call.retail, None, call.cpi)
            + (IF \E p \in call.pmi : \E cur \in p.current :
                     \/ Ge(cur, float(<<53, 48, 46, 48>>))  \* "50.0"
                     \/ \E prev \in p.previous : Gt(cur, prev)
               THEN 1 ELSE 0)

\* C8 witness: PMI at 50.0 and falling from 51.0, nothing else: score 1
C8_Witness ==
    /\ call.retail = None /\ call.cpi = None
    /\ call.pmi = Some([current |-> Some(float(<<53, 48, 46, 48>>)),  \* "50.0"
                       previous |-> Some(float(<<53, 49, 46, 48>>))])  \* "51.0"
    /\ result = Some(1)

\* C9: the CPI reading adds 1 to the score when actual and forecast are
\* present and actual > forecast; else 1 when actual is present, forecast
\* absent and actual at least 2.0; else 0, also when actual is at least 2.0
\* but not above a present forecast.
C9_CpiRule ==
    \A s \in result :
        s = score_region_macro(call.retail, call.pmi, None)
            + (IF \E c \in call.cpi : \E act \in c.actual_yoy :
                     \/ \E fc \in c.forecast_yoy : Gt(act, fc)
                     \/ c.forecast_yoy = None /\ Ge(act, float(<<50, 46, 48>>))  \* "2.0"
               THEN 1 ELSE 0)

\* C9 witness: CPI 3.0 against a forecast of 3.5, nothing else: score 0
C9_Witness ==
    /\ call.retail = None /\ call.pmi = None
    /\ call.cpi = Some([actual_yoy |-> Some(float(<<51, 46, 48>>)),  \* "3.0"
                        forecast_yoy |-> Some(float(<<51, 46, 53>>)),  \* "3.5"
                        previous_yoy |-> None])
    /\ result = Some(0)

\* C10: the retail reading adds 1 to the score iff actual is present and
\* above a present forecast or above a present previous, so 0 with actual
\* alone; and the score is the sum of the three readings' points.
C10_RetailRuleAndSum ==
    \A s \in result :
        /\ s = (IF \E r \in call.retail : \E a \in r.actual :
                      \/ \E f \in r.forecast : Gt(a, f)
                      \/ \E p \in r.previous : Gt(a, p)
                THEN 1 ELSE 0)
               + score_region_macro(None, call.pmi, None)
               + score_region_macro(None, None, call.cpi)
        /\ score_region_macro(None, call.pmi, None) \in {0, 1}
        /\ score_region_macro(None, None, call.cpi) \in {0, 1}

\* C10 witness: retail above forecast with no previous, PMI and CPI both
\* scoring: score 3
C10_Witness ==
    /\ \E r \in call.retail :
          r.actual = Some(float(<<48, 46, 55>>)) /\ r.forecast = Some(float(<<48, 46, 50>>)) /\ r.previous = None  \* "0.7" "0.2"
    /\ call.pmi = Some([current |-> Some(float(<<53, 53, 46, 48>>)),  \* "55.0"
                       previous |-> Some(float(<<53, 50, 46, 48>>))])  \* "52.0"
    /\ \E c \in call.cpi : c.actual_yoy = Some(float(<<51, 46, 53>>)) /\ c.forecast_yoy = Some(float(<<51, 46, 48>>))  \* "3.5" "3.0"
    /\ result = Some(3)

\* C11: for the candidate rows of any page, parse_retail_sales, parse_pmi
\* and parse_cpi each return None or a reading with at least one field
\* present; when the row they select has raw fields that hold no number
\* ("", "N/A", other text) they return None, never a reading without
\* fields or with zeros put in.
C11_ReadingOrAbsent ==
    \A r \in result :
        LET NoNumber == {<<>>, <<78, 47, 65>>, <<110, 47, 97>>, <<45>>, <<112, 101, 110, 100, 105, 110, 103>>}  \* "N/A" "n/a" "-" "pending"
            Named(i, kws) == \E k \in kws : Contains(lower(r.rows[i].name), k)
            Selected(kws) == {i \in 1..Len(r.rows) :
                                /\ Named(i, kws)
                                /\ \A j \in 1..(i - 1) : ~Named(j, kws)}
            Blank(i) == /\ r.rows[i].actual_raw \in NoNumber
                        /\ r.rows[i].forecast_raw \in NoNumber
                        /\ r.rows[i].previous_raw \in NoNumber
        IN  /\ \A x \in r.retail :
                  x.actual # None \/ x.forecast # None \/ x.previous # None
            /\ \A x \in r.pmi : x.current # None \/ x.previous # None
            /\ \A x \in r.cpi :
                  x.actual_yoy # None \/ x.forecast_yoy # None \/ x.previous_yoy # None
            /\ \A i \in Selected({<<114, 101, 116, 97, 105, 108, 32, 115, 97, 108, 101, 115>>}) : Blank(i) => r.retail = None  \* "retail sales"
            /\ \A i \in Selected({<<112, 109, 105>>}) : Blank(i) => r.pmi = None  \* "pmi"
            /\ \A i \in Selected({<<99, 112, 105>>, <<99, 111, 110, 115, 117, 109, 101, 114, 32, 112, 114, 105, 99, 101>>, <<105, 110, 102, 108, 97, 116, 105, 111, 110>>}) :  \* "cpi" "consumer price" "inflation"
                  Blank(i) => r.cpi = None

\* C11 witness: the first retail row holds "N/A" and blanks, a later one
\* holds numbers: no retail reading
C11_Witness ==
    /\ call.page = <<"retail_na", "retail_beat">>
    /\ \E r \in result : Len(r.rows) = 2 /\ r.retail = None

\* C12 as claimed: of several rows matching "pmi" the one with the most
\* recent date is selected, whatever the order of the rows (the row of
\* 2025-02-01 before that of 2025-01-01, a dated row before an undated
\* one); among rows without a usable date the first encountered is.
C12_MostRecentRowSelected ==
    \A r \in result :
        LET Has(n) == \E i \in 1..Len(call.page) : call.page[i] = n
            Named(i) == Contains(lower(r.rows[i].name), <<112, 109, 105>>)  \* "pmi"
            First == {i \in 1..Len(r.rows) :
                        Named(i) /\ \A j \in 1..(i - 1) : ~Named(j)}
            Reading(i) ==
                LET cur  == _extract_numeric_plain(Some(r.rows[i].actual_raw))
                    prev == _extract_numeric_plain(Some(r.rows[i].previous_raw))
                IN  IF cur = None /\ prev = None THEN None
                    ELSE Some([current |-> cur, previous |-> prev])
        IN  /\ Has("pmi_feb") =>
                  r.pmi = Some([current |-> Some(float(<<53, 50, 46, 48>>)), previous |-> Some(float(<<53, 49, 46, 48>>))])  \* "52.0" "51.0"
            /\ (Has("pmi_jan") /\ ~Has("pmi_feb")) =>
                  r.pmi = Some([current |-> Some(float(<<53, 49, 46, 48>>)),  \* "51.0"
                                previous |-> Some(float(<<53, 48, 46, 53>>))])  \* "50.5"
            /\ (~Has("pmi_jan") /\ ~Has("pmi_feb")) =>
                  /\ First = {} => r.pmi = None
                  /\ \A i \in First : r.pmi = Reading(i)

\* C12 amended: of several rows matching "pmi" the first encountered is
\* selected, whatever the rows' dates: with the row of 2025-01-01 before that
\* of 2025-02-01 the January row, in the other order the February row; the
\* selection reads no date and returns a reading or None for every input.
C12_FirstRowSelected ==
    \A r \in result :
        LET Named(i) == Contains(lower(r.rows[i].name), <<112, 109, 105>>)  \* "pmi"
            First == {i \in 1..Len(r.rows) :
                        Named(i) /\ \A j \in 1..(i - 1) : ~Named(j)}
            Reading(i) ==
                LET cur  == _extract_numeric_plain(Some(r.rows[i].actual_raw))
                    prev == _extract_numeric_plain(Some(r.rows[i].previous_raw))
                IN  IF cur = None /\ prev = None THEN None
                    ELSE Some([current |-> cur, previous |-> prev])
        IN  /\ First = {} => r.pmi = None
            /\ \A i \in First : r.pmi = Reading(i)
            /\ call.page = <<"pmi_jan", "pmi_feb">> =>
                  r.pmi = Some([current |-> Some(float(<<53, 49, 46, 48>>)),  \* "51.0"
                                previous |-> Some(float(<<53, 48, 46, 53>>))])  \* "50.5"
            /\ call.page = <<"pmi_feb", "pmi_jan">> =>
                  r.pmi = Some([current |-> Some(float(<<53, 50, 46, 48>>)), previous |-> Some(float(<<53, 49, 46, 48>>))])  \* "52.0" "51.0"

\* C12 witness: the January row stands before the February row and the
\* January reading is returned
C12_Witness ==
    /\ call.page = <<"pmi_jan", "pmi_feb">>
    /\ \E r \in result : \E x \in r.pmi : x.current = Some(float(<<53, 49, 46, 48>>))  \* "51.0"

\* C13: a rebuild fetches each configured region exactly once, one after
\* another in the order us, eurozone, uk, canada, australia, new_zealand,
\* switzerland, japan; a region whose fetch failed is not fetched again in
\* that rebuild; and last_updated is put in only after the last region, with
\* the time of that moment.
C13_OneFetchPerRegionInOrder ==
    LET order == <<"us", "eurozone", "uk", "canada", "australia", "new_zealand",
                   "switzerland", "japan">>
    IN  \A c \in Callers :
            /\ \A r \in Regions :
                  Cardinality({i \in 1..Len(fetched[c]) : fetched[c][i] = r}) <= 1
            /\ pc[c] = "build" =>
                  /\ idx[c] \in 1..(Len(order) + 1)
                  /\ fetched[c] = SubSeq(order, 1, idx[c] - 1)
                  /\ DOMAIN snapshot[c] = {order[i] : i \in 1..(idx[c] - 1)}
                  /\ "last_updated" \notin DOMAIN snapshot[c]
                  /\ ret[c] = None
            /\ (pc[c] = "done" /\ fetched[c] # <<>>) =>
                  /\ fetched[c] = order
                  /\ \A v \in ret[c] :
                        /\ v["last_updated"] = last_updated_stamp(The(The(callInfo[c]).returned))
                        /\ \A r \in Regions :
                              v[r] = RegionMacroTable[r][answers[c][r]]

\* C13 witness: the first region's fetch failed and the rebuild has gone on
\* to the third region
C13_Witness ==
    \E c \in Callers :
        /\ pc[c] = "build" /\ idx[c] = 3
        /\ fetched[c] = <<"us", "eurozone">>
        /\ IsFailure(answers[c]["us"])
        /\ snapshot[c]["us"].score = 0

\* C14 as claimed: the fallback scan runs exactly when the table scan finds
\* no matching row; then each of "retail sales", "pmi", "cpi",
\* "consumer price", "inflation" that occurs in the text, in any case, gives a
\* candidate row whose actual, forecast and previous are the first three
\* percent tokens of the 400 characters from the keyword's first occurrence,
\* empty where there are fewer; with a table row found there is no such row.
C14_FallbackPerKeyword ==
    \A r \in result :
        LET html  == Html(PageDoc(call.page))
            table == TableScan(PageDoc(call.page))
            kws   == {<<114, 101, 116, 97, 105, 108, 32, 115, 97, 108, 101, 115>>, <<112, 109, 105>>, <<99, 112, 105>>, <<99, 111, 110, 115, 117, 109, 101, 114, 32, 112, 114, 105, 99, 101>>,  \* "retail sales" "pmi" "cpi" "consumer price"
                      <<105, 110, 102, 108, 97, 116, 105, 111, 110>>}  \* "inflation"
            Occurs(k) == Contains(lower(html), k)
            Tokens(k) ==
                LET at == find(lower(html), k)
                    to == IF at + 400 < Len(html) THEN at + 400 ELSE Len(html)
                IN  FindAllPercentFrom(SubSeq(html, at + 1, to), 1)
            Token(k, n) == IF Len(Tokens(k)) >= n THEN Tokens(k)[n] ELSE <<>>
            RowOf(i, k) == /\ lower(r.rows[i].name) = k
                           /\ r.rows[i].actual_raw = Token(k, 1)
                           /\ r.rows[i].forecast_raw = Token(k, 2)
                           /\ r.rows[i].previous_raw = Token(k, 3)
        IN  /\ table # <<>> => r.rows = table
            /\ table = <<>> =>
                  /\ \A k \in kws :
                        Occurs(k) => \E i \in 1..Len(r.rows) : RowOf(i, k)
                  /\ \A i \in 1..Len(r.rows) :
                        \E k \in kws : Occurs(k) /\ RowOf(i, k)

=============================================================================
